---- MODULE Spec2Model ----
(***************************************************************************)
(* State-machine model of the water-meter firmware                         *)
(* (src/IntegratedWaterMeterIoTSystem/src/main.c): the connectivity        *)
(* supervisor (wifi_connect, thingsboard_connect, the two net_mgmt event   *)
(* handlers and the MQTT event handler), the telemetry publisher           *)
(* (send_telemetry, send_attributes) and the poll loop of main().          *)
(*                                                                         *)
(* The main thread is modelled by pc and its locals.  The net_mgmt event   *)
(* handlers run in the event thread and interleave with every main step.   *)
(* mqtt_evt_handler runs inside mqtt_input / mqtt_disconnect, that is in   *)
(* the main thread.  The link driver, the broker and the socket are the    *)
(* environment: envLink, linkReqPending, ipPending, sess, sockBuf,         *)
(* connackDue.                                                             *)
(***************************************************************************)
EXTENDS Integers, Sequences, FiniteSets, TLC

VARIABLES
    pc,                 \* position of the main thread
    mqtt_connected,     \* static volatile bool mqtt_connected
    wifi_connected,     \* K_SEM_DEFINE(wifi_connected, 0, 1): count 0..1
    ipv4_obtained,      \* K_SEM_DEFINE(ipv4_obtained, 0, 1): count 0..1
    meter_data,         \* static meter_data_t meter_data (valid, status, baud_code)
    wc_retry,           \* wifi_connect: int retry
    tb_retry,           \* thingsboard_connect: int retry
    timeout,            \* thingsboard_connect: int timeout (ms)
    wifi_retry_count,   \* main: int wifi_retry_count
    ret,                \* main: int ret
    loop_count,         \* main: int loop_count
    attrs_sent,         \* main: static bool attrs_sent
    tel_rc,             \* value returned by the last send_telemetry()
    tb_rc,              \* value returned by the last thingsboard_connect()
    uartReady,          \* device_is_ready(uart_dev)
    hasWifi,            \* net_if_get_first_wifi() != NULL
    envLink,            \* link driver: "down" | "up"
    linkReqPending,     \* a connect request has no result event yet
    ipPending,          \* DHCP has not yet raised IPV4_ADDR_ADD
    sess,               \* MQTT client: "closed" | "open" | "established", or
                        \* "nosock" when client.transport.tcp.sock < 0
    sockBuf,            \* unread input of the session socket
    connackDue,         \* the broker has not yet answered CONNECT
    healed,             \* environment assumption: link and session requests are answered
    dnsOk,              \* environment assumption: name resolution succeeds
    call,               \* collaborator call made by the last step
    evt,                \* event delivered to a handler by the last step
    sawLinkUp,          \* history: link-connect success seen since last disconnect
    sawAck,             \* history: CONNACK(0) seen since last disconnect
    attrCredit,         \* history: successful CONNACKs minus send_attributes() invocations
    attrSinceAck,       \* history: send_attributes() invocations since last CONNACK(0)
    telPubs,            \* history: telemetry publishes in this poll cycle
    polled,             \* history: read_meter_data() ran in this poll cycle
    bringup,            \* history: the health check started bring-up in this cycle
    wcReqs,             \* history: connect requests issued by this wifi_connect()
    wcOnlyTimeout,      \* history: every attempt of this wifi_connect() timed out
    tbReqs,             \* history: mqtt_connect() calls of this thingsboard_connect()
    tbOnlyTimeout,      \* history: every attempt of this thingsboard_connect() timed out
    pub_rc,             \* history: value returned by the last mqtt_publish()
    payload,            \* send_telemetry: the leak, empty, lowBattery fields of the
                        \* message it built, as a set of at most one message
    attributes,         \* send_attributes: the baudRate field of the message it
                        \* built, as a set of at most one message
    rx_buf,             \* read_meter_data: the rx_len bytes received into rx_buf
    tx_buf,             \* read_meter_data: the bytes of tx_buf written to the line
    uart_cfg,           \* configuration the serial transport is in
    cfgFailed,          \* history: uart_configure() failed in switch_to_modbus()
    steps,              \* history: the steps of this transaction, in order
    rm_rc,              \* value returned by the last read_meter_data()
    fixture,            \* environment: what the line delivers in this transaction
    slave_id,           \* build_read_cmd(): the address argument
    now,                \* k_uptime_get_32(): uint32 milliseconds
    start,              \* receive loop: uint32_t start
    last_byte,          \* receive loop: uint32_t last_byte
    wcRefused,          \* history: the connect request of this link attempt got
                        \* a result with non-zero status
    suReqs,             \* history: link connect requests the driver accepted
                        \* during start-up bring-up, up to max_retries + 1
    cb_regs,            \* net_mgmt: how often each callback was added to the
                        \* event manager's list, up to MaxCount
    waited,             \* history: milliseconds this connect attempt has spent
                        \* in zsock_poll() and k_sleep()
    flow_rate,          \* simulated meter: static int32_t flow_rate
    total_volume        \* simulated meter: static int32_t total_volume

semv    == <<wifi_connected, ipv4_obtained>>
linkv   == <<envLink, linkReqPending, ipPending>>
sessv   == <<sess, sockBuf, connackDue>>
wcv     == <<wc_retry, wcReqs, wcOnlyTimeout>>
tbv     == <<tb_retry, timeout, tbReqs, tbOnlyTimeout, tb_rc>>
mainv   == <<wifi_retry_count, ret, loop_count, attrs_sent, meter_data>>
telv    == <<tel_rc, pub_rc, telPubs, payload, attributes>>
c1v     == <<sawLinkUp, sawAck>>
cntv    == <<attrCredit, attrSinceAck>>
cycv    == <<polled, bringup>>
busv    == <<rx_buf, tx_buf, uart_cfg, cfgFailed, steps, rm_rc, fixture, slave_id>>
rxv     == <<now, start, last_byte>>
\* what no step of the supervisor, the publisher or the poll loop changes
simv    == <<flow_rate, total_volume>>
devv    == <<uartReady, hasWifi, dnsOk, busv, rxv, simv>>
\* the histories of link bring-up
wchv    == <<wcRefused, suReqs, cb_regs>>
hwv     == <<devv, waited, wchv>>
assumev == <<hwv, healed>>

vars == <<pc, mqtt_connected, semv, linkv, sessv, wcv, tbv, mainv, telv,
          c1v, cntv, cycv, assumev, call, evt>>

(***************************************************************************)
(* Program constants                                                       *)
(***************************************************************************)
max_retries      == 10
max_wifi_retries == 3
tb_max_retries   == 5
TB_TIMEOUT_MS    == 5000
TB_SLICE_MS      == 500
HEALTH_PERIOD    == 10

(***************************************************************************)
(* Bounds of the model                                                     *)
(***************************************************************************)
MaxLoop   == 11      \* poll cycles explored
MaxCount  == 2       \* saturation of the history counters
MaxStatus == 63      \* status words 0..MaxStatus drawn by the publisher harness
MaxBaud   == 7       \* baud codes 0..MaxBaud drawn by the attributes harness

\* history counters: count up to MaxCount, count down to -1
Sat(n)   == IF n < MaxCount THEN n + 1 ELSE n
Debit(n) == IF n > -1 THEN n - 1 ELSE n

\* status words a meter transaction of the poll loop may decode
LoopStatuses == {0}

(***************************************************************************)
(* Retry loops                                                             *)
(***************************************************************************)
\* a retry loop that runs once more than its bound
AttemptsLeft_one_more(retry, bound) == retry <= bound

\* lines 334 and 465: the loop condition "retry < bound" of wifi_connect()
\* and of thingsboard_connect()
AttemptsLeft(retry, bound) == retry < bound

(***************************************************************************)
(* Frame codec: modbus_crc16, build_read_cmd, read_u32.  A byte buffer is  *)
(* a sequence; C index i is element i + 1.                                 *)
(***************************************************************************)
Bytes == 0..255

\* a ^ b for two values below 256 (the "crc ^= data[i]" of line 122 changes
\* the low byte of crc only)
RECURSIVE Xor8(_, _, _)
Xor8(a, b, n) ==
    IF n = 0 THEN 0
    ELSE ((a + b) % 2) + 2 * Xor8(a \div 2, b \div 2, n - 1)

\* x ^ 0xA001 for x below 0x8000: bits 15, 13 and 0 are toggled
XorA001(x) ==
    LET b13 == IF (x \div 8192) % 2 = 1 THEN -8192 ELSE 8192
        b0  == IF x % 2 = 1 THEN -1 ELSE 1
    IN  x + 32768 + b13 + b0

\* line 124: one bit iteration
CrcShift(crc) == IF crc % 2 = 1 THEN XorA001(crc \div 2) ELSE crc \div 2

\* lines 122-125: one input byte, eight bit iterations
CrcByte(crc, byte) ==
    LET x == (crc \div 256) * 256 + Xor8(crc % 256, byte, 8) IN
    CrcShift(CrcShift(CrcShift(CrcShift(CrcShift(CrcShift(CrcShift(CrcShift(x))))))))

\* lines 121-126: the loop over the bytes data[i] .. data[length], the range
\* taken in two halves one after the other to keep the evaluation shallow
\* (the test of c makes the first half's result a value before the second
\* half starts; a CRC is never negative)
RECURSIVE CrcFrom(_, _, _, _)
CrcFrom(crc, data, i, length) ==
    IF i > length THEN crc
    ELSE IF i = length THEN CrcByte(crc, data[i])
    ELSE LET mid == (i + length) \div 2
             c   == CrcFrom(crc, data, i, mid)
         IN  IF c >= 0 THEN CrcFrom(c, data, mid + 1, length) ELSE c

\* lines 118-128: CRC of the first length bytes of data
modbus_crc16(data, length) == CrcFrom(65535, data, 1, length)

\* a request whose checksum bytes are written high byte first
build_read_cmd_crc_swapped(id) ==
    LET head == <<id, 3, 0, 1, 0, 38>>
        crc  == modbus_crc16(head, 6)
    IN  head \o <<(crc \div 256) % 256, crc % 256>>

\* lines 133-145: the 8 bytes of tx_buf
build_read_cmd(id) ==
    LET head == <<id, 3, 0, 1, 0, 38>>
        crc  == modbus_crc16(head, 6)
    IN  head \o <<crc % 256, (crc \div 256) % 256>>

\* the big-endian 16-bit word at C offset o of d: (d[o] << 8) | d[o + 1]
Word(d, o) == d[o + 1] * 256 + d[o + 2]

\* the uint32 (hi << 16) | lo of two 16-bit halves, kept as the pair of its
\* halves
U32(hi, lo) == <<hi, lo>>

\* uint32_t a + n for a small n, wrapping at 2^32
Add32(a, n) ==
    IF a[2] + n < 65536 THEN U32(a[1], a[2] + n)
    ELSE U32((a[1] + 1) % 65536, a[2] + n - 65536)

\* uint32_t a - b, wrapping at 2^32
Sub32(a, b) ==
    IF a[2] >= b[2] THEN U32((a[1] - b[1] + 65536) % 65536, a[2] - b[2])
    ELSE U32((a[1] - b[1] - 1 + 131072) % 65536, a[2] + 65536 - b[2])

\* uint32_t a < n and a > n for a small n
Less32(a, n) == a[1] = 0 /\ a[2] < n
Greater32(a, n) == a[1] > 0 \/ a[2] > n

\* lines 150-155: low is the word at offset, high the word at offset + 2
read_u32(d, offset) ==
    LET low  == Word(d, offset)
        high == Word(d, offset + 2)
    IN  U32(high, low)

(***************************************************************************)
(* Kernel semaphores (limit 1)                                             *)
(***************************************************************************)
k_sem_give(s)  == IF s < 1 THEN s + 1 ELSE s
k_sem_reset(s) == 0

(***************************************************************************)
(* Event handlers                                                          *)
(***************************************************************************)
\* a link-lost handler that forgets the address-assigned semaphore
wifi_event_handler_keeps_ipv4(mgmt_event, status) ==
    IF mgmt_event = "NET_EVENT_WIFI_CONNECT_RESULT"
    THEN IF status = 0
         THEN <<mqtt_connected, k_sem_give(wifi_connected), ipv4_obtained>>
         ELSE <<mqtt_connected, wifi_connected, ipv4_obtained>>
    ELSE IF mgmt_event = "NET_EVENT_WIFI_DISCONNECT_RESULT"
    THEN <<FALSE, k_sem_reset(wifi_connected), ipv4_obtained>>
    ELSE <<mqtt_connected, wifi_connected, ipv4_obtained>>

\* wifi_event_handler: the new <<mqtt_connected, wifi_connected, ipv4_obtained>>
wifi_event_handler(mgmt_event, status) ==
    IF mgmt_event = "NET_EVENT_WIFI_CONNECT_RESULT"
    THEN IF status = 0
         THEN <<mqtt_connected, k_sem_give(wifi_connected), ipv4_obtained>>
         ELSE <<mqtt_connected, wifi_connected, ipv4_obtained>>
    ELSE IF mgmt_event = "NET_EVENT_WIFI_DISCONNECT_RESULT"
    THEN <<FALSE, k_sem_reset(wifi_connected), k_sem_reset(ipv4_obtained)>>
    ELSE <<mqtt_connected, wifi_connected, ipv4_obtained>>

\* ipv4_event_handler: the new ipv4_obtained
ipv4_event_handler(mgmt_event) ==
    IF mgmt_event = "NET_EVENT_IPV4_ADDR_ADD"
    THEN k_sem_give(ipv4_obtained)
    ELSE ipv4_obtained

\* a session handler that takes every CONNACK for an acceptance
mqtt_evt_handler_any_connack(type, result) ==
    IF type = "MQTT_EVT_CONNACK"
    THEN TRUE
    ELSE IF type = "MQTT_EVT_DISCONNECT"
    THEN FALSE
    ELSE mqtt_connected

\* mqtt_evt_handler: the new mqtt_connected
mqtt_evt_handler(type, result) ==
    IF type = "MQTT_EVT_CONNACK"
    THEN IF result # 0 THEN FALSE ELSE TRUE
    ELSE IF type = "MQTT_EVT_DISCONNECT"
    THEN FALSE
    ELSE mqtt_connected

\* line 66: the address of the meter on the field bus
MODBUS_SLAVE_ID  == 1

(***************************************************************************)
(* The serial side at rest: no transaction on the field bus                *)
(***************************************************************************)
\* line 637: the configuration uart_config_get() snapshots at start-up
original_cfg == "console"

BusIdle ==
    /\ rx_buf = <<>>
    /\ tx_buf = <<>>
    /\ uart_cfg = original_cfg
    /\ cfgFailed = FALSE
    /\ steps = <<>>
    /\ rm_rc = "0"
    /\ fixture = "none"
    /\ slave_id = MODBUS_SLAVE_ID
    /\ waited = 0
    /\ wcRefused = FALSE
    /\ suReqs = 0
    /\ cb_regs = [wifi_cb |-> 0, ipv4_cb |-> 0]
    /\ flow_rate = 15
    /\ total_volume = 0
    /\ now = 0
    /\ start = 0
    /\ last_byte = 0

(***************************************************************************)
(* Initial state: after static initialisation, before main() runs          *)
(***************************************************************************)
Init ==
    /\ pc = "boot"
    /\ mqtt_connected = FALSE
    /\ wifi_connected = 0
    /\ ipv4_obtained = 0
    /\ meter_data = [valid |-> FALSE, status |-> 0, baud_code |-> 0]
    /\ wc_retry = 0
    /\ tb_retry = 0
    /\ timeout = 0
    /\ wifi_retry_count = 0
    /\ ret = "0"
    /\ loop_count = 0
    /\ attrs_sent = FALSE
    /\ tel_rc = "0"
    /\ tb_rc = "0"
    /\ uartReady \in BOOLEAN
    /\ hasWifi \in BOOLEAN
    /\ envLink = "down"
    /\ linkReqPending = FALSE
    /\ ipPending = FALSE
    /\ sess = "closed"
    /\ sockBuf = "empty"
    /\ connackDue = FALSE
    /\ healed = FALSE
    /\ dnsOk = FALSE
    /\ call = "none"
    /\ evt = "none"
    /\ sawLinkUp = FALSE
    /\ sawAck = FALSE
    /\ attrCredit = 0
    /\ attrSinceAck = 0
    /\ telPubs = 0
    /\ polled = FALSE
    /\ bringup = FALSE
    /\ wcReqs = 0
    /\ wcOnlyTimeout = TRUE
    /\ tbReqs = 0
    /\ tbOnlyTimeout = TRUE
    /\ pub_rc = "0"
    /\ payload = {}
    /\ attributes = {}
    /\ BusIdle

\* a main-thread step that delivers no event
Main(p, c) == pc' = p /\ call' = c /\ evt' = "none"

\* the poll loop is entered once start-up is over
InLoop == loop_count > 0

(***************************************************************************)
(* Environment: the link driver and its net_mgmt events                    *)
(***************************************************************************)
\* NET_EVENT_WIFI_CONNECT_RESULT with status 0
WifiConnectResultOk ==
    /\ linkReqPending
    /\ LET h == wifi_event_handler("NET_EVENT_WIFI_CONNECT_RESULT", 0) IN
       /\ mqtt_connected' = h[1]
       /\ wifi_connected' = h[2]
       /\ ipv4_obtained' = h[3]
    /\ linkReqPending' = FALSE
    /\ envLink' = "up"
    /\ ipPending' = TRUE
    /\ sawLinkUp' = TRUE
    /\ pc' = pc /\ call' = "none" /\ evt' = "wifi_ok"
    /\ UNCHANGED <<sawAck, sessv, wcv, tbv, mainv, telv, cntv, cycv, assumev>>

\* NET_EVENT_WIFI_CONNECT_RESULT with a non-zero status
WifiConnectResultFail ==
    /\ linkReqPending
    /\ ~healed
    /\ LET h == wifi_event_handler("NET_EVENT_WIFI_CONNECT_RESULT", 1) IN
       /\ mqtt_connected' = h[1]
       /\ wifi_connected' = h[2]
       /\ ipv4_obtained' = h[3]
    /\ linkReqPending' = FALSE
    /\ wcRefused' = TRUE
    /\ UNCHANGED <<suReqs, cb_regs>>
    /\ pc' = pc /\ call' = "none" /\ evt' = "wifi_fail"
    /\ UNCHANGED <<envLink, ipPending, c1v, sessv, wcv, tbv, mainv, telv, cntv,
                   cycv, devv, waited, healed>>

\* NET_EVENT_WIFI_DISCONNECT_RESULT: the link is lost; last tells whether this
\* is the last failure of the environment
LinkLost(last) ==
    /\ envLink = "up"
    /\ ~healed
    /\ healed' = last
    /\ LET h == wifi_event_handler("NET_EVENT_WIFI_DISCONNECT_RESULT", 0) IN
       /\ mqtt_connected' = h[1]
       /\ wifi_connected' = h[2]
       /\ ipv4_obtained' = h[3]
    /\ envLink' = "down"
    /\ ipPending' = FALSE
    /\ sawLinkUp' = FALSE
    /\ sawAck' = FALSE
    /\ pc' = pc /\ call' = "none" /\ evt' = "wifi_lost"
    /\ UNCHANGED <<linkReqPending, sessv, wcv, tbv, mainv, telv, cntv, cycv,
                   hwv>>

WifiDisconnect == LinkLost(FALSE)

\* NET_EVENT_IPV4_ADDR_ADD
Ipv4AddrAdd ==
    /\ ipPending
    /\ envLink = "up"
    /\ ipv4_obtained' = ipv4_event_handler("NET_EVENT_IPV4_ADDR_ADD")
    /\ ipPending' = FALSE
    /\ pc' = pc /\ call' = "none" /\ evt' = "ipv4"
    /\ UNCHANGED <<mqtt_connected, wifi_connected, envLink, linkReqPending, c1v,
                   sessv, wcv, tbv, mainv, telv, cntv, cycv, assumev>>

(***************************************************************************)
(* Environment: the broker side of the session socket                      *)
(***************************************************************************)
SockArrive(data) ==
    /\ sockBuf' = data
    /\ pc' = pc /\ call' = "none" /\ evt' = "none"
    /\ UNCHANGED <<mqtt_connected, semv, linkv, sess, wcv, tbv, mainv, telv,
                   c1v, cntv, cycv, hwv>>

\* the broker has a CONNECT to answer and the answer can reach the socket
AnswerDue ==
    sess = "open" /\ connackDue /\ envLink = "up" /\ sockBuf = "empty"

\* the broker accepts the CONNECT: a CONNACK with return code 0 arrives
BrokerConnackOk ==
    /\ AnswerDue
    /\ connackDue' = FALSE
    /\ healed' = healed
    /\ SockArrive("connack_ok")

\* the broker refuses the CONNECT: a CONNACK with a non-zero return code
BrokerConnackRefused ==
    /\ AnswerDue
    /\ ~healed
    /\ connackDue' = FALSE
    /\ healed' = healed
    /\ SockArrive("connack_refused")

\* the peer closes the stream, or the socket reports an error; last tells
\* whether this is the last failure of the environment
SessionLost(last) ==
    /\ sess \in {"open", "established"} /\ sockBuf = "empty"
    /\ ~healed
    /\ connackDue' = FALSE
    /\ healed' = last
    /\ SockArrive("eof")

BrokerClose == SessionLost(FALSE)

(***************************************************************************)
(* Session collaborator calls made by the main thread                      *)
(***************************************************************************)
\* mqtt_input(&client): the pending input is decoded and mqtt_evt_handler runs
mqtt_input ==
    /\ sockBuf' = "empty"
    /\ connackDue' = connackDue
    /\ IF sockBuf = "connack_ok"
       THEN /\ mqtt_connected' = mqtt_evt_handler("MQTT_EVT_CONNACK", 0)
            /\ sess' = "established"
            /\ evt' = "connack_ok"
            /\ sawAck' = TRUE /\ sawLinkUp' = sawLinkUp
            /\ attrCredit' = Sat(attrCredit) /\ attrSinceAck' = 0
       ELSE IF sockBuf = "connack_refused"
       THEN /\ mqtt_connected' = mqtt_evt_handler("MQTT_EVT_CONNACK", 5)
            /\ sess' = sess
            /\ evt' = "connack_refused"
            /\ UNCHANGED <<c1v, cntv>>
       ELSE IF sockBuf = "eof"
       THEN /\ mqtt_connected' = mqtt_evt_handler("MQTT_EVT_DISCONNECT", 0)
            /\ sess' = "closed"
            /\ evt' = "mqtt_disc"
            /\ sawAck' = FALSE /\ sawLinkUp' = FALSE
            /\ UNCHANGED cntv
       ELSE /\ mqtt_connected' = mqtt_connected
            /\ sess' = sess
            /\ evt' = "none"
            /\ UNCHANGED <<c1v, cntv>>

\* mqtt_disconnect(&client, &disc): the transport is closed; an established
\* session is notified with MQTT_EVT_DISCONNECT
mqtt_disconnect ==
    /\ sess' = "closed"
    /\ sockBuf' = "empty"
    /\ connackDue' = FALSE
    /\ IF sess = "established"
       THEN /\ mqtt_connected' = mqtt_evt_handler("MQTT_EVT_DISCONNECT", 0)
            /\ evt' = "mqtt_disc"
            /\ sawAck' = FALSE /\ sawLinkUp' = FALSE
       ELSE /\ mqtt_connected' = mqtt_connected
            /\ evt' = "none"
            /\ UNCHANGED c1v

(***************************************************************************)
(* wifi_connect()                                                          *)
(***************************************************************************)
\* return r to the caller: main() assigns it to ret at both call sites
WcReturn(r) ==
    /\ ret' = r
    /\ wc_retry' = 0
    /\ Main(IF InLoop THEN "hc_wifi_ret" ELSE "su_wifi_ret", "none")

\* net_mgmt_add_event_callback(cb): the callback is put on the event
\* manager's list once more
net_mgmt_add_event_callback(regs, cb) == [regs EXCEPT ![cb] = Sat(@)]

\* lines 300-332: interface lookup, callback registration (315-322), request
\* parameters
WcEnter ==
    /\ pc = "wc_enter"
    /\ wcReqs' = 0
    /\ wcOnlyTimeout' = TRUE
    /\ IF ~hasWifi
       THEN /\ WcReturn("-ENODEV")
            /\ cb_regs' = cb_regs
       ELSE /\ wc_retry' = 0
            /\ ret' = ret
            /\ cb_regs' = net_mgmt_add_event_callback(
                              net_mgmt_add_event_callback(cb_regs, "wifi_cb"),
                              "ipv4_cb")
            /\ Main("wc_loop", "none")
    /\ UNCHANGED <<mqtt_connected, semv, linkv, sessv, tbv, wifi_retry_count,
                   loop_count, attrs_sent, meter_data, telv, c1v, cntv, cycv,
                   devv, waited, wcRefused, suReqs, healed>>

\* lines 334-339 and 370-372: the retry bound, then both semaphores are reset
WcLoop ==
    /\ pc = "wc_loop"
    /\ IF AttemptsLeft(wc_retry, max_retries)
       THEN /\ wifi_connected' = k_sem_reset(wifi_connected)
            /\ ipv4_obtained' = k_sem_reset(ipv4_obtained)
            /\ Main("wc_req", "none")
            /\ UNCHANGED <<wc_retry, ret>>
       ELSE /\ WcReturn("-ETIMEDOUT")
            /\ UNCHANGED semv
    /\ UNCHANGED <<mqtt_connected, linkv, sessv, wcReqs, wcOnlyTimeout, tbv,
                   wifi_retry_count, loop_count, attrs_sent, meter_data, telv,
                   c1v, cntv, cycv, assumev>>

\* line 341: net_mgmt(NET_REQUEST_WIFI_CONNECT) accepted by the driver
WcRequestOk ==
    /\ pc = "wc_req"
    /\ linkReqPending' = TRUE
    /\ wcReqs' = wcReqs + 1
    /\ wcRefused' = FALSE
    /\ suReqs' = IF InLoop \/ suReqs > max_retries THEN suReqs ELSE suReqs + 1
    /\ cb_regs' = cb_regs
    /\ Main("wc_wait_link", "wifi_req")
    /\ UNCHANGED <<mqtt_connected, semv, envLink, ipPending, sessv, wc_retry,
                   wcOnlyTimeout, tbv, mainv, telv, c1v, cntv, cycv, devv,
                   waited, healed>>

\* lines 341-347: the request is rejected
WcRequestFail ==
    /\ pc = "wc_req"
    /\ ~healed
    /\ wcReqs' = wcReqs + 1
    /\ wcOnlyTimeout' = FALSE
    /\ wc_retry' = wc_retry + 1
    /\ Main("wc_loop", "wifi_req")
    /\ UNCHANGED <<mqtt_connected, semv, linkv, sessv, tbv, mainv, telv, c1v,
                   cntv, cycv, assumev>>

\* line 350: k_sem_take(&wifi_connected, K_SECONDS(30)) == 0
WcWaitLinkTake ==
    /\ pc = "wc_wait_link"
    /\ wifi_connected > 0
    /\ wifi_connected' = wifi_connected - 1
    /\ Main("wc_wait_ip", "none")
    /\ UNCHANGED <<mqtt_connected, ipv4_obtained, linkv, sessv, wcv, tbv, mainv,
                   telv, c1v, cntv, cycv, assumev>>

\* lines 350-355: the 30 s wait for the link-up signal times out
WcWaitLinkTimeout ==
    /\ pc = "wc_wait_link"
    /\ wifi_connected = 0
    /\ healed => ~linkReqPending
    /\ wc_retry' = wc_retry + 1
    /\ Main("wc_loop", "none")
    /\ UNCHANGED <<mqtt_connected, semv, linkv, sessv, wcReqs, wcOnlyTimeout,
                   tbv, mainv, telv, c1v, cntv, cycv, assumev>>

\* lines 358, 365-367: k_sem_take(&ipv4_obtained, K_SECONDS(30)) == 0, return 0
WcWaitIpTake ==
    /\ pc = "wc_wait_ip"
    /\ ipv4_obtained > 0
    /\ ipv4_obtained' = ipv4_obtained - 1
    /\ WcReturn("0")
    /\ UNCHANGED <<mqtt_connected, wifi_connected, linkv, sessv, wcReqs,
                   wcOnlyTimeout, tbv, wifi_retry_count, loop_count, attrs_sent,
                   meter_data, telv, c1v, cntv, cycv, assumev>>

\* lines 358-363: the 30 s wait for the address signal times out
WcWaitIpTimeout ==
    /\ pc = "wc_wait_ip"
    /\ ipv4_obtained = 0
    /\ healed => ~ipPending
    /\ wc_retry' = wc_retry + 1
    /\ Main("wc_loop", "none")
    /\ UNCHANGED <<mqtt_connected, semv, linkv, sessv, wcReqs, wcOnlyTimeout,
                   tbv, mainv, telv, c1v, cntv, cycv, assumev>>

(***************************************************************************)
(* broker_init()                                                           *)
(***************************************************************************)
\* a broker name that never resolves
broker_init_unresolved == {"-EINVAL"}

\* the set of values broker_init() may return
broker_init == {"0"} \cup (IF dnsOk THEN {} ELSE {"-EINVAL"})

(***************************************************************************)
(* thingsboard_connect()                                                   *)
(***************************************************************************)
TbReturn(r) ==
    /\ tb_rc' = r
    /\ tb_retry' = 0
    /\ timeout' = 0
    /\ pc' = "tb_ret"

\* lines 457-463: prepare_mqtt_client() re-initialises the client
TbEnter ==
    /\ pc = "tb_enter"
    /\ tb_retry' = 0
    /\ tbReqs' = 0
    /\ tbOnlyTimeout' = TRUE
    /\ sess' = "closed" /\ sockBuf' = "empty" /\ connackDue' = FALSE
    /\ Main("tb_loop", "none")
    /\ UNCHANGED <<mqtt_connected, semv, linkv, wcv, timeout, tb_rc, mainv, telv,
                   c1v, cntv, cycv, assumev>>

\* lines 465-476: mqtt_connect() returns 0; the 5000 ms budget starts
TbConnectOk ==
    /\ pc = "tb_loop"
    /\ AttemptsLeft(tb_retry, tb_max_retries)
    /\ envLink = "up"
    /\ sess' = "open" /\ sockBuf' = "empty" /\ connackDue' = TRUE
    /\ timeout' = TB_TIMEOUT_MS
    /\ tbReqs' = tbReqs + 1
    /\ Main("tb_poll", "mqtt_connect")
    /\ UNCHANGED <<mqtt_connected, semv, linkv, wcv, tb_retry, tbOnlyTimeout,
                   tb_rc, mainv, telv, c1v, cntv, cycv, assumev>>

\* lines 466-470: mqtt_connect() fails, goto cleanup.  It fails with a socket
\* it has closed again, or with none when the socket could not be created
TbConnectFail ==
    /\ pc = "tb_loop"
    /\ AttemptsLeft(tb_retry, tb_max_retries)
    /\ healed => envLink = "down"
    /\ \E s \in {"closed", "nosock"} : sess' = s
    /\ sockBuf' = "empty" /\ connackDue' = FALSE
    /\ tbReqs' = tbReqs + 1
    /\ tbOnlyTimeout' = FALSE
    /\ Main("tb_cleanup", "mqtt_connect")
    /\ UNCHANGED <<mqtt_connected, semv, linkv, wcv, tb_retry, timeout, tb_rc,
                   mainv, telv, c1v, cntv, cycv, assumev>>

\* lines 465, 503-504: five attempts failed
TbGiveUp ==
    /\ pc = "tb_loop"
    /\ ~AttemptsLeft(tb_retry, tb_max_retries)
    /\ TbReturn("-ECONNREFUSED")
    /\ call' = "none" /\ evt' = "none"
    /\ UNCHANGED <<mqtt_connected, semv, linkv, sessv, wcv, tbReqs,
                   tbOnlyTimeout, mainv, telv, c1v, cntv, cycv, assumev>>

\* lines 478-482: one poll slice; pending input is fed to mqtt_input()
poll_slice ==
    /\ pc = "tb_poll"
    /\ IF timeout > 0
       THEN /\ IF sockBuf # "empty"
               THEN mqtt_input
               ELSE /\ evt' = "none"
                    /\ UNCHANGED <<mqtt_connected, sessv, c1v, cntv>>
            /\ pc' = "tb_check"
       ELSE /\ pc' = "tb_cleanup"
            /\ evt' = "none"
            /\ UNCHANGED <<mqtt_connected, sessv, c1v, cntv>>
    /\ call' = "none"
    /\ UNCHANGED <<semv, linkv, wcv, tbv, mainv, telv, cycv>>

TbPoll == poll_slice /\ UNCHANGED assumev

\* lines 484-490: the readiness flag is sampled; otherwise sleep one slice
check_slice ==
    /\ pc = "tb_check"
    /\ IF mqtt_connected
       THEN /\ TbReturn("0")
       ELSE /\ healed => ~AnswerDue
            /\ timeout' = timeout - TB_SLICE_MS
            /\ pc' = "tb_poll"
            /\ UNCHANGED <<tb_retry, tb_rc>>
    /\ call' = "none" /\ evt' = "none"
    /\ UNCHANGED <<mqtt_connected, semv, linkv, sessv, wcv, tbReqs,
                   tbOnlyTimeout, mainv, telv, c1v, cntv, cycv>>

TbCheck == check_slice /\ UNCHANGED assumev

\* a cleanup that leaves the session as it is
TbCleanup_without_disconnect ==
    /\ pc = "tb_cleanup"
    /\ tb_retry' = tb_retry + 1
    /\ pc' = "tb_loop" /\ call' = "none" /\ evt' = "none"
    /\ UNCHANGED <<mqtt_connected, sessv, c1v>>
    /\ UNCHANGED <<semv, linkv, wcv, timeout, tbReqs, tbOnlyTimeout, tb_rc,
                   mainv, telv, cntv, cycv, assumev>>

\* lines 493-500: retry++, tear the session down if there is a socket,
\* wait 2 s
TbCleanup ==
    /\ pc = "tb_cleanup"
    /\ tb_retry' = tb_retry + 1
    /\ IF sess # "nosock"
       THEN /\ mqtt_disconnect
            /\ call' = "mqtt_disconnect"
       ELSE /\ call' = "none" /\ evt' = "none"
            /\ UNCHANGED <<mqtt_connected, sessv, c1v>>
    /\ pc' = "tb_loop"
    /\ UNCHANGED <<semv, linkv, wcv, timeout, tbReqs, tbOnlyTimeout, tb_rc,
                   mainv, telv, cntv, cycv, assumev>>

(***************************************************************************)
(* send_telemetry() and send_attributes()                                  *)
(***************************************************************************)
\* an entry check that tests the reading before the flag
send_telemetry_gate_reading_first(connected, valid) ==
    IF ~valid THEN "-EINVAL"
    ELSE IF ~connected THEN "-ENOTCONN"
    ELSE "go"

\* lines 511-519: the value send_telemetry() returns before building the
\* payload, "go" when it goes on to publish
send_telemetry_gate(connected, valid) ==
    IF ~connected THEN "-ENOTCONN"
    ELSE IF ~valid THEN "-EINVAL"
    ELSE "go"

\* a publisher that forwards every result but a failed publish
send_telemetry_result_swallowed(rc) == "0"

\* lines 555-561: the value send_telemetry() returns after mqtt_publish()
send_telemetry_result(rc) == rc

\* lines 540-542: the leak, empty and lowBattery fields of the payload
StatusBit(status, bit) == IF (status \div bit) % 2 = 1 THEN 1 ELSE 0

\* lines 507-519
StCheck ==
    /\ pc = "st_check"
    /\ LET g == send_telemetry_gate(mqtt_connected, meter_data.valid) IN
       IF g = "go"
       THEN /\ pc' = "st_publish"
            /\ tel_rc' = tel_rc
       ELSE /\ pc' = "maint"
            /\ tel_rc' = g
    /\ call' = "none" /\ evt' = "none"
    /\ UNCHANGED <<mqtt_connected, semv, linkv, sessv, wcv, tbv, mainv, pub_rc,
                   telPubs, payload, attributes, c1v, cntv, cycv, assumev>>

\* a payload whose leak field reads status bit 3
TelemetryFlags_leak_bit3(status) ==
    [leak       |-> StatusBit(status, 8),
     empty      |-> StatusBit(status, 4),
     lowBattery |-> StatusBit(status, 32)]

\* lines 540-542: (status & 0x0004) ? 1 : 0 twice, (status & 0x0020) ? 1 : 0
TelemetryFlags(status) ==
    [leak       |-> StatusBit(status, 4),
     empty      |-> StatusBit(status, 4),
     lowBattery |-> StatusBit(status, 32)]

\* lines 521-561: the payload is built and handed to mqtt_publish()
StPublish ==
    /\ pc = "st_publish"
    /\ payload' = {TelemetryFlags(meter_data.status)}
    /\ \E rc \in {"0", "err"} :
          /\ pub_rc' = rc
          /\ tel_rc' = send_telemetry_result(rc)
    /\ telPubs' = telPubs + 1
    /\ Main("maint", "pub_tel")
    /\ UNCHANGED <<attributes, mqtt_connected, semv, linkv, sessv, wcv, tbv, mainv, c1v,
                   cntv, cycv, assumev>>

\* line 570 (and line 732 when send_attributes returns -ENOTCONN)
SaCheck ==
    /\ pc = "sa_check"
    /\ IF ~mqtt_connected
       THEN /\ attrs_sent' = TRUE
            /\ pc' = "tel_gate"
       ELSE /\ attrs_sent' = attrs_sent
            /\ pc' = "sa_publish"
    /\ call' = "none" /\ evt' = "none"
    /\ UNCHANGED <<mqtt_connected, semv, linkv, sessv, wcv, tbv,
                   wifi_retry_count, ret, loop_count, meter_data, telv, c1v,
                   cntv, cycv, assumev>>

\* a resolver that has the entries for codes 1 and 2 the wrong way round
baud_str_1_2_swapped(baud_code) ==
    CASE baud_code = 0 -> "9600"
      [] baud_code = 1 -> "4800"
      [] baud_code = 2 -> "2400"
      [] baud_code = 3 -> "1200"
      [] OTHER -> "unknown"

\* lines 572-579: the switch on meter_data.baud_code that sets baud_str
baud_str(baud_code) ==
    CASE baud_code = 0 -> "9600"
      [] baud_code = 1 -> "2400"
      [] baud_code = 2 -> "4800"
      [] baud_code = 3 -> "1200"
      [] OTHER -> "unknown"

\* lines 572-603 and lines 731-732: the attributes are built and published,
\* main() drops the value send_attributes() returns and sets the latch
SaPublish ==
    /\ pc = "sa_publish"
    /\ attrs_sent' = TRUE
    /\ attributes' = {[baudRate |-> baud_str(meter_data.baud_code)]}
    /\ \E rc \in {"0", "err"} : pub_rc' = rc
    /\ Main("tel_gate", "pub_attr")
    /\ UNCHANGED <<mqtt_connected, semv, linkv, sessv, wcv, tbv,
                   wifi_retry_count, ret, loop_count, meter_data, tel_rc,
                   telPubs, payload, c1v, cntv, cycv, assumev>>

(***************************************************************************)
(* main(): start-up                                                        *)
(***************************************************************************)
\* a start-up that goes on without looking at the serial transport
Boot_ignores_uart ==
    /\ pc = "boot"
    /\ Main("su_loop", "none")
    /\ UNCHANGED <<mqtt_connected, semv, linkv, sessv, wcv, tbv, mainv, telv,
                   c1v, cntv, cycv, assumev>>

\* lines 631-638: device_is_ready(uart_dev); "exit" is the return -1 of line
\* 634, the only return main() reaches
Boot ==
    /\ pc = "boot"
    /\ Main(IF ~uartReady THEN "exit" ELSE "su_loop", "none")
    /\ UNCHANGED <<mqtt_connected, semv, linkv, sessv, wcv, tbv, mainv, telv,
                   c1v, cntv, cycv, assumev>>

\* lines 641-642
SuLoop ==
    /\ pc = "su_loop"
    /\ Main(IF wifi_retry_count < max_wifi_retries THEN "wc_enter"
            ELSE "su_after", "none")
    /\ UNCHANGED <<mqtt_connected, semv, linkv, sessv, wcv, tbv, mainv, telv,
                   c1v, cntv, cycv, assumev>>

\* lines 643-652
SuWifiRet ==
    /\ pc = "su_wifi_ret"
    /\ IF ret = "0"
       THEN /\ wifi_retry_count' = wifi_retry_count
            /\ pc' = "su_after"
       ELSE /\ wifi_retry_count' = wifi_retry_count + 1
            /\ pc' = "su_loop"
    /\ wcReqs' = 0 /\ wcOnlyTimeout' = TRUE
    /\ call' = "none" /\ evt' = "none"
    /\ UNCHANGED <<mqtt_connected, semv, linkv, sessv, wc_retry, tbv, ret,
                   loop_count, attrs_sent, meter_data, telv, c1v, cntv, cycv,
                   assumev>>

\* a start-up that connects to the broker whether or not its name resolved
SuAfter_connects_unresolved ==
    /\ pc = "su_after"
    /\ IF ret # "0"
       THEN /\ ret' = ret
            /\ pc' = "loop_top"
       ELSE \E r \in broker_init :
               /\ ret' = r
               /\ pc' = "tb_enter"
    /\ suReqs' = 0
    /\ call' = "none" /\ evt' = "none"
    /\ UNCHANGED <<mqtt_connected, semv, linkv, sessv, wcv, tbv,
                   wifi_retry_count, loop_count, attrs_sent, meter_data, telv,
                   c1v, cntv, cycv, devv, waited, wcRefused, cb_regs, healed>>

\* lines 655-675: start-up bring-up is over
SuAfter ==
    /\ pc = "su_after"
    /\ IF ret # "0"
       THEN /\ ret' = ret
            /\ pc' = "loop_top"
       ELSE \E r \in broker_init :
               /\ ret' = r
               /\ pc' = IF r # "0" THEN "loop_top" ELSE "tb_enter"
    /\ suReqs' = 0
    /\ call' = "none" /\ evt' = "none"
    /\ UNCHANGED <<mqtt_connected, semv, linkv, sessv, wcv, tbv,
                   wifi_retry_count, loop_count, attrs_sent, meter_data, telv,
                   c1v, cntv, cycv, devv, waited, wcRefused, cb_regs, healed>>

\* lines 670-673 (ret = thingsboard_connect()) and line 698 (value dropped)
TbRet ==
    /\ pc = "tb_ret"
    /\ IF InLoop
       THEN /\ ret' = ret
            /\ pc' = "read"
       ELSE /\ ret' = tb_rc
            /\ pc' = "loop_top"
    /\ tbReqs' = 0 /\ tbOnlyTimeout' = TRUE /\ tb_rc' = "0"
    /\ call' = "none" /\ evt' = "none"
    /\ UNCHANGED <<mqtt_connected, semv, linkv, sessv, wcv, tb_retry, timeout,
                   wifi_retry_count, loop_count, attrs_sent, meter_data, telv,
                   c1v, cntv, cycv, assumev>>

(***************************************************************************)
(* main(): the poll loop                                                   *)
(***************************************************************************)
\* a health check that ignores the cycle counter
NeedsBringUp_every_cycle(n, connected) == ~connected

\* line 687-688: the health check of a cycle whose counter is n
NeedsBringUp(n, connected) == n % HEALTH_PERIOD = 0 /\ ~connected

\* line 684: loop_count++.  The counter is read only modulo HEALTH_PERIOD
\* (line 687); above MaxLoop the model folds it back by one period.
NextCycle(n) == IF n < MaxLoop THEN n + 1 ELSE n + 1 - HEALTH_PERIOD

\* lines 683-702; cycles beyond MaxLoop are explored only in the healed
\* environment, where the loop has to run until the session is back
LoopTop ==
    /\ pc = "loop_top"
    /\ loop_count < MaxLoop \/ healed
    /\ loop_count' = NextCycle(loop_count)
    /\ bringup' = NeedsBringUp(loop_count', mqtt_connected)
    /\ polled' = FALSE
    /\ Main(IF NeedsBringUp(loop_count', mqtt_connected) THEN "wc_enter"
            ELSE "read", "none")
    /\ UNCHANGED <<mqtt_connected, semv, linkv, sessv, wcv, tbv,
                   wifi_retry_count, ret, attrs_sent, meter_data, telv, c1v,
                   cntv, assumev>>

\* line 693
HcWifiRet ==
    /\ pc = "hc_wifi_ret"
    /\ Main(IF ret = "0" THEN "hc_dns" ELSE "read", "none")
    /\ wcReqs' = 0 /\ wcOnlyTimeout' = TRUE
    /\ UNCHANGED <<mqtt_connected, semv, linkv, sessv, wc_retry, tbv, mainv,
                   telv, c1v, cntv, cycv, assumev>>

\* lines 694-697
HcDns ==
    /\ pc = "hc_dns"
    /\ \E r \in broker_init :
          /\ ret' = r
          /\ pc' = IF r = "0" THEN "tb_enter" ELSE "read"
    /\ call' = "none" /\ evt' = "none"
    /\ UNCHANGED <<mqtt_connected, semv, linkv, sessv, wcv, tbv,
                   wifi_retry_count, loop_count, attrs_sent, meter_data, telv,
                   c1v, cntv, cycv, assumev>>

\* a poll cycle that goes on to publish whatever read_meter_data() returned
after_read_ignores_result(r, valid) == "attrs_check"

\* lines 706 and 743-745: where the cycle goes after read_meter_data()
\* returned r and left meter_data.valid as valid
after_read(r, valid) == IF r = "0" /\ valid THEN "attrs_check" ELSE "maint"

\* lines 704-708 and 743-745: one meter transaction, decoding a status word
\* of statuses and a baud code of bauds or failing, and the branch on it
read_cycle(statuses, bauds) ==
    /\ pc = "read"
    /\ \/ \E st \in statuses, bc \in bauds :
             /\ ret' = "0"
             /\ meter_data' = [valid |-> TRUE, status |-> st, baud_code |-> bc]
       \/ /\ ret' = "-1"
          /\ meter_data' = [meter_data EXCEPT !.valid = FALSE]
    /\ polled' = TRUE
    /\ pc' = after_read(ret', meter_data'.valid)
    /\ call' = "modbus" /\ evt' = "none"
    /\ UNCHANGED <<mqtt_connected, semv, linkv, sessv, wcv, tbv,
                   wifi_retry_count, loop_count, attrs_sent, telv, c1v, cntv,
                   bringup, assumev>>

ReadMeter == read_cycle(LoopStatuses, {0})

\* an attribute publisher without its once-only latch
NeedsAttributes_unlatched(sent, connected) == connected

\* line 730: the condition under which main() calls send_attributes()
NeedsAttributes(sent, connected) == ~sent /\ connected

\* lines 728-731
AttrsCheck ==
    /\ pc = "attrs_check"
    /\ IF NeedsAttributes(attrs_sent, mqtt_connected)
       THEN /\ pc' = "sa_check"
            /\ attrCredit' = Debit(attrCredit)
            /\ attrSinceAck' = Sat(attrSinceAck)
       ELSE /\ pc' = "tel_gate"
            /\ UNCHANGED <<attrCredit, attrSinceAck>>
    /\ call' = "none" /\ evt' = "none"
    /\ UNCHANGED <<mqtt_connected, semv, linkv, sessv, wcv, tbv, mainv, telv,
                   c1v, cycv, assumev>>

\* lines 735-742
TelGate ==
    /\ pc = "tel_gate"
    /\ Main(IF mqtt_connected THEN "st_check" ELSE "maint", "none")
    /\ UNCHANGED <<mqtt_connected, semv, linkv, sessv, wcv, tbv, mainv, telv,
                   c1v, cntv, cycv, assumev>>

\* lines 747-754 with mqtt_maintenance() (606-612); the cycle ends
Maint ==
    /\ pc = "maint"
    /\ IF mqtt_connected
       THEN mqtt_input
       ELSE /\ evt' = "none"
            /\ UNCHANGED <<mqtt_connected, sessv, c1v, cntv>>
    /\ pc' = "loop_top" /\ call' = "none"
    /\ tel_rc' = "0" /\ pub_rc' = "0" /\ telPubs' = 0 /\ payload' = {}
    /\ attributes' = {}
    /\ polled' = FALSE /\ bringup' = FALSE
    /\ UNCHANGED <<semv, linkv, wcv, tbv, mainv, assumev>>

(***************************************************************************)
(* The firmware with its environment                                       *)
(***************************************************************************)
MainStep ==
    \/ Boot \/ SuLoop \/ SuWifiRet \/ SuAfter \/ TbRet
    \/ WcEnter \/ WcLoop \/ WcRequestOk \/ WcRequestFail
    \/ WcWaitLinkTake \/ WcWaitLinkTimeout \/ WcWaitIpTake \/ WcWaitIpTimeout
    \/ TbEnter \/ TbConnectOk \/ TbConnectFail \/ TbGiveUp \/ TbPoll \/ TbCheck
    \/ TbCleanup
    \/ LoopTop \/ HcWifiRet \/ HcDns \/ ReadMeter \/ AttrsCheck \/ SaCheck
    \/ SaPublish \/ TelGate \/ StCheck \/ StPublish \/ Maint

EnvStep ==
    \/ WifiConnectResultOk \/ WifiConnectResultFail \/ WifiDisconnect
    \/ Ipv4AddrAdd \/ BrokerConnackOk \/ BrokerConnackRefused \/ BrokerClose

Next == MainStep \/ EnvStep

Spec == Init /\ [][Next]_vars

\* the 16-bit status words of the publisher harness: every setting of bits
\* 0 to 5 with bits 6 to 15 all clear and all set
StatusWords == (0..MaxStatus) \cup {65535 - st : st \in 0..MaxStatus}

(***************************************************************************)
(* The publisher on its own: send_telemetry() entered in any combination   *)
(* of readiness flag and reading, with the link-lost handler interleaved   *)
(***************************************************************************)
PubInit ==
    /\ pc = "st_check"
    /\ mqtt_connected \in BOOLEAN
    /\ wifi_connected = 0
    /\ ipv4_obtained = 0
    /\ meter_data \in [valid : BOOLEAN, status : StatusWords, baud_code : {0}]
    /\ wc_retry = 0
    /\ tb_retry = 0
    /\ timeout = 0
    /\ wifi_retry_count = 0
    /\ ret = "0"
    /\ loop_count = 1
    /\ attrs_sent = TRUE
    /\ tel_rc = "0"
    /\ tb_rc = "0"
    /\ uartReady = TRUE
    /\ hasWifi = TRUE
    /\ envLink \in {"down", "up"}
    /\ linkReqPending = FALSE
    /\ ipPending = FALSE
    /\ sess \in {"closed", "established"}
    /\ sockBuf = "empty"
    /\ connackDue = FALSE
    /\ healed = FALSE
    /\ dnsOk = FALSE
    /\ call = "none"
    /\ evt = "none"
    /\ sawLinkUp = (envLink = "up")
    /\ sawAck = mqtt_connected
    /\ attrCredit = 0
    /\ attrSinceAck = 0
    /\ telPubs = 0
    /\ polled = TRUE
    /\ bringup = FALSE
    /\ wcReqs = 0
    /\ wcOnlyTimeout = TRUE
    /\ tbReqs = 0
    /\ tbOnlyTimeout = TRUE
    /\ pub_rc = "0"
    /\ payload = {}
    /\ attributes = {}
    /\ BusIdle

PubNext == StCheck \/ StPublish \/ WifiDisconnect

PubSpec == PubInit /\ [][PubNext]_vars

\* the 16-bit baud codes of the attributes harness: 0..MaxBaud, the same with
\* bit 8 set, and the highest codes
BaudCodes ==
    (0..MaxBaud) \cup {256 + bc : bc \in 0..MaxBaud}
                 \cup {65535 - bc : bc \in 0..MaxBaud}

(***************************************************************************)
(* send_attributes() on its own: entered from line 731 in any state of the *)
(* readiness flag, with a reading of any baud code                         *)
(***************************************************************************)
AttrInit ==
    /\ pc = "sa_check"
    /\ mqtt_connected \in BOOLEAN
    /\ wifi_connected = 0
    /\ ipv4_obtained = 0
    /\ meter_data \in [valid : {TRUE}, status : {0}, baud_code : BaudCodes]
    /\ wc_retry = 0
    /\ tb_retry = 0
    /\ timeout = 0
    /\ wifi_retry_count = 0
    /\ ret = "0"
    /\ loop_count = 1
    /\ attrs_sent = FALSE
    /\ tel_rc = "0"
    /\ tb_rc = "0"
    /\ uartReady = TRUE
    /\ hasWifi = TRUE
    /\ envLink = "up"
    /\ linkReqPending = FALSE
    /\ ipPending = FALSE
    /\ sess = IF mqtt_connected THEN "established" ELSE "closed"
    /\ sockBuf = "empty"
    /\ connackDue = FALSE
    /\ healed = FALSE
    /\ dnsOk = FALSE
    /\ call = "none"
    /\ evt = "none"
    /\ sawLinkUp = TRUE
    /\ sawAck = mqtt_connected
    /\ attrCredit = 0
    /\ attrSinceAck = 1
    /\ telPubs = 0
    /\ polled = TRUE
    /\ bringup = FALSE
    /\ wcReqs = 0
    /\ wcOnlyTimeout = TRUE
    /\ tbReqs = 0
    /\ tbOnlyTimeout = TRUE
    /\ pub_rc = "0"
    /\ payload = {}
    /\ attributes = {}
    /\ BusIdle

AttrNext == SaCheck \/ SaPublish \/ WifiDisconnect

AttrSpec == AttrInit /\ [][AttrNext]_vars

(***************************************************************************)
(* The stand-alone telemetry clients (src/MQTT.c and the simulated water   *)
(* meter, Zephyr_with_ThingsBoard _VIA_MQTT/MQTT.c).  Both have the same   *)
(* main(), wifi_connect() and thingsboard_connect(); line numbers are      *)
(* those of the simulated water meter, with those of src/MQTT.c in         *)
(* brackets.  thingsboard_connect() is the one of the integrated firmware  *)
(* statement for statement and is modelled by the same actions.  What the  *)
(* telemetry message of the simulated meter holds is modelled by           *)
(* next_flow below; here a message is a message.  loop_count > 0 tells     *)
(* that while (1) has been entered.                                        *)
(***************************************************************************)
ClientInit ==
    /\ pc = "cm_boot"
    /\ mqtt_connected = FALSE
    /\ wifi_connected = 0
    /\ ipv4_obtained = 0
    /\ meter_data = [valid |-> FALSE, status |-> 0, baud_code |-> 0]
    /\ wc_retry = 0
    /\ tb_retry = 0
    /\ timeout = 0
    /\ wifi_retry_count = 0
    /\ ret = "0"
    /\ loop_count = 0
    /\ attrs_sent = FALSE
    /\ tel_rc = "0"
    /\ tb_rc = "0"
    /\ uartReady = TRUE
    /\ hasWifi \in BOOLEAN
    /\ envLink = "down"
    /\ linkReqPending = FALSE
    /\ ipPending = FALSE
    /\ sess = "closed"
    /\ sockBuf = "empty"
    /\ connackDue = FALSE
    /\ healed = FALSE
    /\ dnsOk \in BOOLEAN
    /\ call = "none"
    /\ evt = "none"
    /\ sawLinkUp = FALSE
    /\ sawAck = FALSE
    /\ attrCredit = 0
    /\ attrSinceAck = 0
    /\ telPubs = 0
    /\ polled = FALSE
    /\ bringup = FALSE
    /\ wcReqs = 0
    /\ wcOnlyTimeout = TRUE
    /\ tbReqs = 0
    /\ tbOnlyTimeout = TRUE
    /\ pub_rc = "0"
    /\ payload = {}
    /\ attributes = {}
    /\ BusIdle

\* what no step of the client's main() and wifi_connect() changes
clientv == <<mqtt_connected, sessv, wc_retry, wcOnlyTimeout, tbv,
             wifi_retry_count, attrs_sent, meter_data, c1v, cntv, cycv,
             assumev>>

\* lines 350-355 [418-433]: main() calls wifi_connect()
CmBoot ==
    /\ pc = "cm_boot"
    /\ Main("cw_enter", "none")
    /\ UNCHANGED <<clientv, semv, linkv, wcReqs, ret, loop_count, telv>>

\* wifi_connect() returns r to line 355 [433]
CwReturn(r) ==
    /\ ret' = r
    /\ Main("cm_wifi_ret", "none")

\* lines 116-138 [99-125]: interface lookup, callback registration,
\* request parameters
CwEnter ==
    /\ pc = "cw_enter"
    /\ IF ~hasWifi
       THEN CwReturn("-ENODEV")
       ELSE /\ ret' = ret
            /\ Main("cw_req", "none")
    /\ UNCHANGED <<clientv, semv, linkv, wcReqs, loop_count, telv>>

\* line 140 [127]: net_mgmt(NET_REQUEST_WIFI_CONNECT) accepted by the driver
CwRequestOk ==
    /\ pc = "cw_req"
    /\ linkReqPending' = TRUE
    /\ wcReqs' = wcReqs + 1
    /\ Main("cw_wait_link", "wifi_req")
    /\ UNCHANGED <<clientv, semv, envLink, ipPending, ret, loop_count, telv>>

\* lines 140-144 [127-132]: the request is rejected, return ret
CwRequestFail ==
    /\ pc = "cw_req"
    /\ wcReqs' = wcReqs + 1
    /\ ret' = "-EIO"
    /\ Main("cm_wifi_ret", "wifi_req")
    /\ UNCHANGED <<clientv, semv, linkv, loop_count, telv>>

\* line 146 [135]: k_sem_take(&wifi_connected, K_SECONDS(30)) == 0
CwWaitLinkTake ==
    /\ pc = "cw_wait_link"
    /\ wifi_connected > 0
    /\ wifi_connected' = wifi_connected - 1
    /\ Main("cw_wait_ip", "none")
    /\ UNCHANGED <<clientv, ipv4_obtained, linkv, wcReqs, ret, loop_count,
                   telv>>

\* lines 146-149 [135-138]: the wait for the link-up signal times out
CwWaitLinkTimeout ==
    /\ pc = "cw_wait_link"
    /\ wifi_connected = 0
    /\ CwReturn("-ETIMEDOUT")
    /\ UNCHANGED <<clientv, semv, linkv, wcReqs, loop_count, telv>>

\* lines 151, 156-157 [141, 146-147]: the address signal is taken, return 0
CwWaitIpTake ==
    /\ pc = "cw_wait_ip"
    /\ ipv4_obtained > 0
    /\ ipv4_obtained' = ipv4_obtained - 1
    /\ CwReturn("0")
    /\ UNCHANGED <<clientv, wifi_connected, linkv, wcReqs, loop_count, telv>>

\* lines 151-154 [141-144]: the wait for the address signal times out
CwWaitIpTimeout ==
    /\ pc = "cw_wait_ip"
    /\ ipv4_obtained = 0
    /\ CwReturn("-ETIMEDOUT")
    /\ UNCHANGED <<clientv, semv, linkv, wcReqs, loop_count, telv>>

\* lines 355-361 [433-451]: wifi_connect() != 0 or broker_init() != 0 end
\* main() with return -1 ("cm_exit"); otherwise thingsboard_connect() is called
CmWifiRet ==
    /\ pc = "cm_wifi_ret"
    /\ IF ret # "0"
       THEN Main("cm_exit", "none")
       ELSE \E b \in broker_init :
               Main(IF b # "0" THEN "cm_exit" ELSE "tb_enter", "none")
    /\ UNCHANGED <<clientv, semv, linkv, wcReqs, ret, loop_count, telv>>

\* thingsboard_connect() returns.  Lines 361-363 [451-458], start-up: a
\* failure ends main() with return -1, otherwise send_attributes() runs and
\* while (1) is entered.  Lines 367-370 [475-479], in the loop: the value
\* returned is not looked at
CmTbRet ==
    /\ pc = "tb_ret"
    /\ IF loop_count > 0
       THEN /\ Main("cm_maint", "none")
            /\ UNCHANGED <<loop_count, attributes>>
       ELSE IF tb_rc # "0"
       THEN /\ Main("cm_exit", "none")
            /\ UNCHANGED <<loop_count, attributes>>
       ELSE /\ loop_count' = 1
            /\ IF mqtt_connected
               THEN /\ attributes' = {[firmwareVersion |-> "1.0.0",
                                       deviceModel |-> "Water-Meter"]}
                    /\ Main("cm_tel", "pub_attr")
               ELSE /\ attributes' = attributes
                    /\ Main("cm_tel", "none")
    /\ UNCHANGED <<clientv, semv, linkv, wcReqs, ret, tel_rc, pub_rc, telPubs,
                   payload>>

\* lines 367-370 [475-479] with send_telemetry(), lines 289 and 317-319
\* [332-363]: without the readiness flag -ENOTCONN, otherwise what
\* mqtt_publish() returns; any failure calls thingsboard_connect()
CmTelemetry ==
    /\ pc = "cm_tel"
    /\ IF ~mqtt_connected
       THEN /\ tel_rc' = "-ENOTCONN"
            /\ Main("tb_enter", "none")
            /\ UNCHANGED <<pub_rc, telPubs, payload>>
       ELSE /\ payload' = {[topic |-> "v1/devices/me/telemetry"]}
            /\ telPubs' = 1
            /\ \E rc \in {"0", "err"} :
                  /\ pub_rc' = rc
                  /\ tel_rc' = rc
                  /\ Main(IF rc = "0" THEN "cm_maint" ELSE "tb_enter", "pub_tel")
    /\ UNCHANGED <<clientv, semv, linkv, wcReqs, ret, loop_count, attributes>>

\* lines 372-373 [482-485] with mqtt_maintenance(), lines 342-348 [404-415]
CmMaint ==
    /\ pc = "cm_maint"
    /\ IF mqtt_connected
       THEN mqtt_input
       ELSE /\ evt' = "none"
            /\ UNCHANGED <<mqtt_connected, sessv, c1v, cntv>>
    /\ pc' = "cm_tel" /\ call' = "none"
    /\ tel_rc' = "0" /\ pub_rc' = "0" /\ telPubs' = 0 /\ payload' = {}
    /\ attributes' = {}
    /\ UNCHANGED <<semv, linkv, wcv, tbv, mainv, cycv, assumev>>

ClientMain ==
    \/ CmBoot \/ CwEnter \/ CwRequestOk \/ CwRequestFail
    \/ CwWaitLinkTake \/ CwWaitLinkTimeout \/ CwWaitIpTake \/ CwWaitIpTimeout
    \/ CmWifiRet \/ CmTbRet \/ CmTelemetry \/ CmMaint
    \/ TbEnter \/ TbConnectOk \/ TbConnectFail \/ TbGiveUp \/ TbPoll \/ TbCheck
    \/ TbCleanup

ClientEnv ==
    \/ WifiConnectResultOk \/ WifiConnectResultFail \/ WifiDisconnect
    \/ Ipv4AddrAdd \/ BrokerConnackOk \/ BrokerConnackRefused \/ BrokerClose

ClientNext == ClientMain \/ ClientEnv

ClientSpec == ClientInit /\ [][ClientNext]_vars

\* main() is the only thread of the client's own: it runs whenever it can
ClientLiveSpec == ClientSpec /\ WF_vars(ClientMain)

(***************************************************************************)
(* send_telemetry() of the simulated water meter on its own: the numbers   *)
(* of its message.  sys_rand32_get() is any uint32_t; the arithmetic of    *)
(* line 291 is that of C: the remainder and the subtraction are unsigned,  *)
(* the sum is converted back to int32_t.                                   *)
(***************************************************************************)
\* uint32_t a % n for a small n
Mod32(a, n) == ((a[1] % n) * (65536 % n) + (a[2] % n)) % n

\* uint32_t a + b, wrapping at 2^32
Sum32(a, b) ==
    LET lo == a[2] + b[2] IN
    U32((a[1] + b[1] + (lo \div 65536)) % 65536, lo % 65536)

\* (uint32_t)i of an int32_t i, and (int32_t)u of a uint32_t u
ToU32(i) == U32((i \div 65536) % 65536, i % 65536)
ToI32(u) == IF u[1] >= 32768 THEN (u[1] - 65536) * 65536 + u[2]
            ELSE u[1] * 65536 + u[2]

\* line 291: (sys_rand32_get() % 11) - 5, an unsigned value
rand_delta(r) == Sub32(U32(0, Mod32(r, 11)), U32(0, 5))

\* lines 291-293: flow_rate += delta, then the two range checks
drift(flow, r) ==
    LET f == ToI32(Sum32(ToU32(flow), rand_delta(r))) IN
    IF f < 5 THEN 5 ELSE IF f > 50 THEN 50 ELSE f

\* line 295: (sys_rand32_get() % 100) < 5
leak_drawn(r) == Mod32(r, 100) < 5

\* lines 291-298: the flow rate send_telemetry() stores and publishes
next_flow(flow, r1, r2) ==
    IF leak_drawn(r2) THEN drift(flow, r1) + 20 ELSE drift(flow, r1)

\* lines 300-301
next_volume(volume, flow) ==
    IF volume + flow \div 6 > 999999 THEN 999999 ELSE volume + flow \div 6

\* the random draws looked at: the small values and the largest ones
MaxDraw == 10
Draws == {U32(0, k) : k \in 0 .. MaxDraw} \cup {U32(65535, 65535 - k) : k \in 0 .. 1}

\* calls of send_telemetry() looked at
MaxSends == 3

FlowInit ==
    /\ pc = "fl_send"
    /\ mqtt_connected \in BOOLEAN
    /\ wifi_connected = 0
    /\ ipv4_obtained = 0
    /\ meter_data = [valid |-> FALSE, status |-> 0, baud_code |-> 0]
    /\ wc_retry = 0
    /\ tb_retry = 0
    /\ timeout = 0
    /\ wifi_retry_count = 0
    /\ ret = "0"
    /\ loop_count = 1
    /\ attrs_sent = FALSE
    /\ tel_rc = "0"
    /\ tb_rc = "0"
    /\ uartReady = TRUE
    /\ hasWifi = TRUE
    /\ envLink = "up"
    /\ linkReqPending = FALSE
    /\ ipPending = FALSE
    /\ sess = IF mqtt_connected THEN "established" ELSE "closed"
    /\ sockBuf = "empty"
    /\ connackDue = FALSE
    /\ healed = FALSE
    /\ dnsOk = TRUE
    /\ call = "none"
    /\ evt = "none"
    /\ sawLinkUp = TRUE
    /\ sawAck = mqtt_connected
    /\ attrCredit = 0
    /\ attrSinceAck = 0
    /\ telPubs = 0
    /\ polled = FALSE
    /\ bringup = FALSE
    /\ wcReqs = 1
    /\ wcOnlyTimeout = TRUE
    /\ tbReqs = 1
    /\ tbOnlyTimeout = TRUE
    /\ pub_rc = "0"
    /\ payload = {}
    /\ attributes = {}
    /\ rx_buf = <<>>
    /\ tx_buf = <<>>
    /\ uart_cfg = original_cfg
    /\ cfgFailed = FALSE
    /\ steps = <<>>
    /\ rm_rc = "0"
    /\ fixture = "none"
    /\ slave_id = MODBUS_SLAVE_ID
    /\ waited = 0
    /\ wcRefused = FALSE
    /\ suReqs = 0
    /\ cb_regs = [wifi_cb |-> 0, ipv4_cb |-> 0]
    /\ now = 0
    /\ start = 0
    /\ last_byte = 0
    /\ flow_rate = 15
    /\ total_volume \in {0, 999990}

\* lines 284-320: send_telemetry() with the draws r1 (line 291) and r2
\* (line 295); telPubs counts the calls
FlowSend ==
    /\ pc = "fl_send"
    /\ telPubs < MaxSends
    /\ telPubs' = telPubs + 1
    /\ IF ~mqtt_connected
       THEN /\ tel_rc' = "-ENOTCONN"
            /\ call' = "none"
            /\ UNCHANGED <<flow_rate, total_volume, payload, pub_rc>>
       ELSE \E r1 \in Draws, r2 \in Draws :
               /\ flow_rate' = next_flow(flow_rate, r1, r2)
               /\ total_volume' = next_volume(total_volume, flow_rate')
               /\ payload' = {[volume   |-> total_volume',
                               flowRate |-> flow_rate',
                               leak     |-> IF leak_drawn(r2) THEN 1 ELSE 0]}
               /\ call' = "pub_tel"
               /\ \E rc \in {"0", "err"} : pub_rc' = rc /\ tel_rc' = rc
    /\ pc' = pc /\ evt' = "none"
    /\ UNCHANGED <<mqtt_connected, semv, linkv, sessv, wcv, tbv, mainv,
                   attributes, c1v, cntv, cycv, uartReady, hasWifi, dnsOk,
                   busv, rxv, waited, wchv, healed>>

FlowNext == FlowSend \/ WifiDisconnect

FlowSpec == FlowInit /\ [][FlowNext]_vars

(***************************************************************************)
(* One session-connect attempt with its waiting counted: thingsboard_       *)
(* connect() stands at line 478 right after an mqtt_connect() that returned *)
(* 0.  zsock_poll(fds, 1, 500) returns at once when input is pending, at    *)
(* the moment input arrives, and after 500 ms when none does.               *)
(***************************************************************************)
\* line 479: the poll timeout;  line 489: the sleep of a slice
TB_POLL_MS  == 500
TB_SLEEP_MS == 500

\* moments of a poll wait, short of its timeout, at which input may arrive
MaxEarly == 2
EarlyWaits == {k * (TB_POLL_MS \div MaxEarly) : k \in 0 .. MaxEarly - 1}

WaitInit ==
    /\ pc = "tb_poll"
    /\ mqtt_connected = FALSE
    /\ wifi_connected = 0
    /\ ipv4_obtained = 0
    /\ meter_data = [valid |-> FALSE, status |-> 0, baud_code |-> 0]
    /\ wc_retry = 0
    /\ tb_retry = 0
    /\ timeout = TB_TIMEOUT_MS
    /\ wifi_retry_count = 0
    /\ ret = "0"
    /\ loop_count = 0
    /\ attrs_sent = FALSE
    /\ tel_rc = "0"
    /\ tb_rc = "0"
    /\ uartReady = TRUE
    /\ hasWifi = TRUE
    /\ envLink = "up"
    /\ linkReqPending = FALSE
    /\ ipPending = FALSE
    /\ sess = "open"
    /\ sockBuf = "empty"
    /\ connackDue = TRUE
    /\ healed = FALSE
    /\ dnsOk = TRUE
    /\ call = "mqtt_connect"
    /\ evt = "none"
    /\ sawLinkUp = TRUE
    /\ sawAck = FALSE
    /\ attrCredit = 0
    /\ attrSinceAck = 0
    /\ telPubs = 0
    /\ polled = FALSE
    /\ bringup = FALSE
    /\ wcReqs = 0
    /\ wcOnlyTimeout = TRUE
    /\ tbReqs = 1
    /\ tbOnlyTimeout = TRUE
    /\ pub_rc = "0"
    /\ payload = {}
    /\ attributes = {}
    /\ BusIdle

\* the broker's answer reaches the socket w ms into the poll wait of line 479
ArriveDuringPoll ==
    /\ pc = "tb_poll"
    /\ timeout > 0
    /\ AnswerDue
    /\ \E w \in EarlyWaits : waited' = waited + w
    /\ \E d \in {"connack_ok", "connack_refused"} : sockBuf' = d
    /\ connackDue' = FALSE
    /\ pc' = pc /\ call' = "none" /\ evt' = "none"
    /\ UNCHANGED <<mqtt_connected, semv, linkv, sess, wcv, tbv, mainv, telv,
                   c1v, cntv, cycv, devv, wchv, healed>>

\* lines 478-482 with the wait of zsock_poll(): nothing pending, the whole
\* timeout passes; input pending, it returns at once
TimedPoll ==
    /\ poll_slice
    /\ waited' = waited + (IF timeout > 0 /\ sockBuf = "empty"
                            THEN TB_POLL_MS ELSE 0)
    /\ UNCHANGED <<devv, wchv, healed>>

\* lines 484-490 with the k_sleep() of the slice
TimedCheck ==
    /\ check_slice
    /\ waited' = waited + (IF mqtt_connected THEN 0 ELSE TB_SLEEP_MS)
    /\ UNCHANGED <<devv, wchv, healed>>

WaitNext == ArriveDuringPoll \/ TimedPoll \/ TimedCheck

WaitSpec == WaitInit /\ [][WaitNext]_vars

(***************************************************************************)
(* Recovery: the poll loop entered after a successful start-up (the state  *)
(* TbRet leaves at line 675), one loss of the link or of the session, and  *)
(* from then on an environment that answers every request in time.  dnsOk  *)
(* tells whether the broker name resolves (broker_init, lines 379-403).    *)
(***************************************************************************)
LiveInit ==
    /\ pc = "loop_top"
    /\ mqtt_connected = TRUE
    /\ wifi_connected = 0
    /\ ipv4_obtained = 0
    /\ meter_data = [valid |-> FALSE, status |-> 0, baud_code |-> 0]
    /\ wc_retry = 0
    /\ tb_retry = 0
    /\ timeout = 0
    /\ wifi_retry_count = 0
    /\ ret = "0"
    /\ loop_count = 0
    /\ attrs_sent = FALSE
    /\ tel_rc = "0"
    /\ tb_rc = "0"
    /\ uartReady = TRUE
    /\ hasWifi = TRUE
    /\ envLink = "up"
    /\ linkReqPending = FALSE
    /\ ipPending = FALSE
    /\ sess = "established"
    /\ sockBuf = "empty"
    /\ connackDue = FALSE
    /\ healed = FALSE
    /\ dnsOk \in BOOLEAN
    /\ call = "none"
    /\ evt = "none"
    /\ sawLinkUp = TRUE
    /\ sawAck = TRUE
    /\ attrCredit = 1
    /\ attrSinceAck = 0
    /\ telPubs = 0
    /\ polled = FALSE
    /\ bringup = FALSE
    /\ wcReqs = 0
    /\ wcOnlyTimeout = TRUE
    /\ tbReqs = 0
    /\ tbOnlyTimeout = TRUE
    /\ pub_rc = "0"
    /\ payload = {}
    /\ attributes = {}
    /\ BusIdle

\* the steps of the main thread inside the poll loop
LiveMain ==
    \/ WcEnter \/ WcLoop \/ WcRequestOk \/ WcRequestFail
    \/ WcWaitLinkTake \/ WcWaitLinkTimeout \/ WcWaitIpTake \/ WcWaitIpTimeout
    \/ TbEnter \/ TbConnectOk \/ TbConnectFail \/ TbGiveUp \/ TbPoll \/ TbCheck
    \/ TbCleanup \/ TbRet
    \/ LoopTop \/ HcWifiRet \/ HcDns \/ ReadMeter \/ AttrsCheck \/ SaCheck
    \/ SaPublish \/ TelGate \/ StCheck \/ StPublish \/ Maint

\* the answers of the environment to the requests of the main thread
LiveAnswers == WifiConnectResultOk \/ Ipv4AddrAdd \/ BrokerConnackOk

\* link losses, the last of which (of the link or of the session) heals the
\* environment
LiveLosses == WifiDisconnect \/ LinkLost(TRUE) \/ SessionLost(TRUE)

LiveNext == LiveMain \/ LiveAnswers \/ LiveLosses

\* the main thread keeps running and the events that are due are delivered
LiveFairness == WF_vars(LiveMain) /\ WF_vars(LiveAnswers)

LiveSpec == LiveInit /\ [][LiveNext]_vars /\ LiveFairness

(***************************************************************************)
(* The meter transaction: read_meter_data() on its own, entered with the   *)
(* line delivering one of a set of replies.  The receive loop is one step  *)
(* here (what it has collected when it exits); its timing is RxSpec.       *)
(***************************************************************************)
MIN_RESPONSE_LEN == 70

\* seeds of the data patterns the simulated device answers with
MaxSeed == 1

\* everything a transaction leaves alone
netv == <<mqtt_connected, semv, linkv, sessv, wcv, tbv, wifi_retry_count, ret,
          loop_count, attrs_sent, telv, c1v, cntv, cycv, uartReady, hasWifi,
          dnsOk, healed, waited, wchv, simv, call, evt>>

\* a validation that looks at length and CRC but not at the header bytes
validate_response_header_unchecked(buf) ==
    LET rx_len == Len(buf) IN
    IF rx_len < MIN_RESPONSE_LEN THEN "short"
    ELSE LET recv_crc == buf[rx_len - 1] + buf[rx_len] * 256
             calc_crc == modbus_crc16(buf, rx_len - 2)
         IN  IF recv_crc # calc_crc THEN "crc" ELSE "ok"

\* lines 226-247: the outcome of the three checks on the rx_len bytes of buf
validate_response(buf) ==
    LET rx_len == Len(buf) IN
    IF rx_len < MIN_RESPONSE_LEN THEN "short"
    ELSE LET recv_crc == buf[rx_len - 1] + buf[rx_len] * 256
             calc_crc == modbus_crc16(buf, rx_len - 2)
         IN  IF recv_crc # calc_crc THEN "crc"
             ELSE IF buf[1] # MODBUS_SLAVE_ID \/ buf[2] # 3 THEN "header"
             ELSE "ok"

\* Master_MCU_interface main(), lines 152-156 and 223-230: the same checks in
\* the stand-alone reader
master_validate(buf) ==
    LET rx_len == Len(buf) IN
    IF rx_len > MIN_RESPONSE_LEN
    THEN LET recv_crc == buf[rx_len - 1] + buf[rx_len] * 256
             calc_crc == modbus_crc16(buf, rx_len - 2)
         IN  IF recv_crc = calc_crc /\ buf[1] = 1 /\ buf[2] = 3
             THEN "ok" ELSE "crc"
    ELSE "short"

\* lines 252-262: the payload offsets the decoder reads
DecoderReads ==
    (0..3) \cup (12..15) \cup (18..21) \cup (36..39) \cup (58..59)
        \cup (64..67) \cup {69} \cup (72..73)

\* line 250: d = &rx_buf[3], as far as the decoder reads it (d[0] .. d[73]);
\* a cell of rx_buf the receive loop did not write holds what the stack held
PayloadOf(buf, stack) ==
    [k \in 1..74 |-> IF k + 2 < Len(buf) THEN buf[k + 3] ELSE stack]

\* lines 252-262: the fields of meter_data
parse_meter_data(d) ==
    [flow_rate     |-> read_u32(d, 0),
     forward_total |-> read_u32(d, 12),
     reverse_total |-> read_u32(d, 18),
     pressure      |-> Word(d, 36),
     temperature   |-> Word(d, 58),
     status        |-> Word(d, 38),
     serial_number |-> U32(Word(d, 64), Word(d, 66)),
     modbus_id     |-> d[70],
     baud_code     |-> Word(d, 72),
     valid         |-> TRUE]

\* the supervisor, the publisher and the poll loop at rest
NetIdle ==
    /\ mqtt_connected = FALSE
    /\ wifi_connected = 0
    /\ ipv4_obtained = 0
    /\ wc_retry = 0
    /\ tb_retry = 0
    /\ timeout = 0
    /\ wifi_retry_count = 0
    /\ ret = "0"
    /\ loop_count = 1
    /\ attrs_sent = FALSE
    /\ tel_rc = "0"
    /\ tb_rc = "0"
    /\ uartReady = TRUE
    /\ hasWifi = TRUE
    /\ envLink = "down"
    /\ linkReqPending = FALSE
    /\ ipPending = FALSE
    /\ sess = "closed"
    /\ sockBuf = "empty"
    /\ connackDue = FALSE
    /\ healed = FALSE
    /\ dnsOk = FALSE
    /\ call = "none"
    /\ evt = "none"
    /\ sawLinkUp = FALSE
    /\ sawAck = FALSE
    /\ attrCredit = 0
    /\ attrSinceAck = 0
    /\ telPubs = 0
    /\ polled = FALSE
    /\ bringup = FALSE
    /\ wcReqs = 0
    /\ wcOnlyTimeout = TRUE
    /\ tbReqs = 0
    /\ tbOnlyTimeout = TRUE
    /\ pub_rc = "0"
    /\ payload = {}
    /\ attributes = {}
    /\ waited = 0
    /\ wcRefused = FALSE
    /\ suReqs = 0
    /\ cb_regs = [wifi_cb |-> 0, ipv4_cb |-> 0]
    /\ flow_rate = 15
    /\ total_volume = 0

\* line 109: static meter_data_t meter_data = {0}
ZeroReading ==
    [flow_rate     |-> U32(0, 0),
     forward_total |-> U32(0, 0),
     reverse_total |-> U32(0, 0),
     pressure      |-> 0,
     temperature   |-> 0,
     status        |-> 0,
     serial_number |-> U32(0, 0),
     modbus_id     |-> 0,
     baud_code     |-> 0,
     valid         |-> FALSE]

(***************************************************************************)
(* What the line delivers: replies of a simulated device, and replies      *)
(* damaged on the way                                                      *)
(***************************************************************************)
\* data byte at C index i of the reply pattern seed
Pattern(seed, i) == (seed * 101 + i * 7 + 13) % 256

\* body followed by its checksum, low byte first
WithCrc(body) ==
    LET crc == modbus_crc16(body, Len(body)) IN
    body \o <<crc % 256, crc \div 256>>

\* a reply of len bytes: address, function, byte count, data, checksum
DeviceFrame(addr, fn, seed, len) ==
    WithCrc([i \in 1..(len - 2) |->
                IF i = 1 THEN addr
                ELSE IF i = 2 THEN fn
                ELSE IF i = 3 THEN len - 5
                ELSE Pattern(seed, i - 1)])

\* byte with bit b inverted
FlipBit(byte, b) ==
    IF (byte \div (2 ^ b)) % 2 = 1 THEN byte - 2 ^ b ELSE byte + 2 ^ b

\* frame with bit b of the byte at C index i inverted
FlipIn(frame, i, b) == [frame EXCEPT ![i + 1] = FlipBit(@, b)]

\* the four bytes of the uint32 v = <<upper half, lower half>> in a word order
EncodeU32(v, order) ==
    LET hi == <<v[1] \div 256, v[1] % 256>>
        lo == <<v[2] \div 256, v[2] % 256>>
    IN  IF order = "first_word_high" THEN hi \o lo ELSE lo \o hi

\* a full reply (38 registers) carrying the four 32-bit values in a word order
FieldFrame(values, order) ==
    LET at(o, v, i) == EncodeU32(v, order)[i - (o + 3)]
        within(o, i) == i - 1 >= o + 3 /\ i - 1 < o + 7
    IN  WithCrc([i \in 1..79 |->
                    IF i = 1 THEN MODBUS_SLAVE_ID
                    ELSE IF i = 2 THEN 3
                    ELSE IF i = 3 THEN 76
                    ELSE IF within(0, i)  THEN at(0, values.flow, i)
                    ELSE IF within(12, i) THEN at(12, values.forward, i)
                    ELSE IF within(18, i) THEN at(18, values.reverse, i)
                    ELSE IF within(64, i) THEN at(64, values.serial, i)
                    ELSE Pattern(0, i - 1)])

\* lengths of the replies of the simulated device; 81 is the full reply
ReplyLens == {4, 69, 70, 71, 78, 79, 81}
\* lengths of the replies that are damaged on the way
DamagedLens == {70, 81}
\* what the cells of rx_buf hold that the receive loop did not write
Stacks == {0, 165}
\* the two readers: the integrated firmware and Master_MCU_interface
Variants == {"integrated", "master"}
\* 32-bit field values of the fixture replies, as <<upper half, lower half>>
FieldValues == {U32(0, 0), U32(1, 2), U32(4660, 43981)}
WordOrders == {"first_word_high", "first_word_low"}

Fixture(kind, frame, base, values, order, variant, stack) ==
    [kind |-> kind, frame |-> frame, base |-> base, values |-> values,
     order |-> order, variant |-> variant, stack |-> stack]

\* replies damaged in one place: one bit before the CRC trailer, one bit of
\* the trailer, the address byte or the function byte (CRC recomputed)
Damaged(seed, len, bytes, bits) ==
    LET base == DeviceFrame(MODBUS_SLAVE_ID, 3, seed, len) IN
    {Fixture("flip", FlipIn(base, i, b), base, "none", "none", "integrated", 0) :
        i \in bytes \cap 0..(len - 3), b \in bits}
    \cup
    {Fixture("badcrc", FlipIn(base, i, b), base, "none", "none", "integrated", 0) :
        i \in {len - 2, len - 1}, b \in bits}
    \cup
    {Fixture("addr", DeviceFrame(a, 3, seed, len), base, "none", "none",
             "integrated", 0) : a \in {0, 2, 255}}
    \cup
    {Fixture("func", DeviceFrame(MODBUS_SLAVE_ID, f, seed, len), base, "none",
             "none", "integrated", 0) : f \in {4, 131}}

\* the replies of the whole-transaction specification
Fixtures ==
    {Fixture("reply", DeviceFrame(MODBUS_SLAVE_ID, 3, seed, len), <<>>, "none",
             "none", v, st) :
        seed \in 0..MaxSeed, len \in ReplyLens, v \in Variants, st \in Stacks}
    \cup
    {Fixture("silent", <<>>, <<>>, "none", "none", v, 0) : v \in Variants}
    \cup
    UNION {Damaged(0, len, {0, 1, 2, 40}, {0, 7}) : len \in DamagedLens}
    \cup
    {Fixture("fields", FieldFrame(vs, o), <<>>, vs, o, "integrated", 0) :
        vs \in [flow : FieldValues, forward : FieldValues,
                 reverse : FieldValues, serial : FieldValues],
        o \in WordOrders}

\* the replies of the validation specification: every single-bit damage of
\* every byte, and the undamaged replies themselves
DamagedFixtures ==
    UNION {Damaged(sl[1], sl[2], 0..(sl[2] - 3), 0..7) :
              sl \in (0..MaxSeed) \X DamagedLens}
    \cup
    {Fixture("reply", DeviceFrame(MODBUS_SLAVE_ID, 3, seed, len), <<>>, "none",
             "none", "integrated", 0) :
        seed \in 0..MaxSeed, len \in DamagedLens}

BusInit ==
    /\ pc = "rm_enter"
    /\ NetIdle
    /\ fixture \in Fixtures
    /\ slave_id = MODBUS_SLAVE_ID
    /\ meter_data \in {[ZeroReading EXCEPT !.valid = v] : v \in BOOLEAN}
    /\ rx_buf = <<>>
    /\ tx_buf = <<>>
    /\ uart_cfg = original_cfg
    /\ cfgFailed = FALSE
    /\ steps = <<>>
    /\ rm_rc = "0"
    /\ now = 0
    /\ start = 0
    /\ last_byte = 0

\* a transaction step: position, step record, everything else of the serial
\* side that the step names
Step(p, name) ==
    /\ pc' = p
    /\ steps' = Append(steps, name)
    /\ UNCHANGED <<netv, fixture, slave_id, rxv>>

\* lines 160-170 and 191: uart_configure() applies the field-bus parameters
SwitchToModbusOk ==
    /\ pc = "rm_enter"
    /\ uart_cfg' = "modbus"
    /\ Step("rm_write", "switch_to_modbus")
    /\ UNCHANGED <<rx_buf, tx_buf, cfgFailed, rm_rc, meter_data>>

\* lines 160-170 and 191: uart_configure() fails; its result is not looked at
SwitchToModbusFail ==
    /\ pc = "rm_enter"
    /\ cfgFailed' = TRUE
    /\ Step("rm_write", "switch_to_modbus")
    /\ UNCHANGED <<rx_buf, tx_buf, uart_cfg, rm_rc, meter_data>>

\* lines 194-197: the request is built and its 8 bytes are written
WriteCmd ==
    /\ pc = "rm_write"
    /\ tx_buf' = build_read_cmd(MODBUS_SLAVE_ID)
    /\ Step("rm_settle", "write")
    /\ UNCHANGED <<rx_buf, uart_cfg, cfgFailed, rm_rc, meter_data>>

\* line 200: k_msleep(100)
Settle ==
    /\ pc = "rm_settle"
    /\ Step("rm_recv", "settle")
    /\ UNCHANGED <<rx_buf, tx_buf, uart_cfg, cfgFailed, rm_rc, meter_data>>

\* lines 203-220: the receive loop has collected what the line delivered
Receive ==
    /\ pc = "rm_recv"
    /\ rx_buf' = fixture.frame
    /\ Step("rm_restore", "receive")
    /\ UNCHANGED <<tx_buf, uart_cfg, cfgFailed, rm_rc, meter_data>>

\* a restore that is passed over when the reply is too short to be looked at
SwitchToConsole_skipped_on_short_reply ==
    /\ pc = "rm_restore"
    /\ IF Len(rx_buf) < MIN_RESPONSE_LEN
       THEN /\ pc' = "rm_validate"
            /\ UNCHANGED <<uart_cfg, steps, netv, fixture, slave_id, rxv>>
       ELSE /\ uart_cfg' = original_cfg
            /\ Step("rm_validate", "switch_to_console")
    /\ UNCHANGED <<rx_buf, tx_buf, cfgFailed, rm_rc, meter_data>>

\* lines 175-179 and 223: uart_configure() applies original_cfg, the
\* configuration the driver reported at start-up (line 637), and the 10 ms
\* settle delay passes
SwitchToConsole ==
    /\ pc = "rm_restore"
    /\ uart_cfg' = original_cfg
    /\ Step("rm_validate", "switch_to_console")
    /\ UNCHANGED <<rx_buf, tx_buf, cfgFailed, rm_rc, meter_data>>

\* lines 226-266: the three checks, then the decoder
Validate ==
    /\ pc = "rm_validate"
    /\ fixture.variant = "integrated"
    /\ IF validate_response(rx_buf) = "ok"
       THEN /\ meter_data' = parse_meter_data(PayloadOf(rx_buf, fixture.stack))
            /\ rm_rc' = "0"
       ELSE /\ meter_data' = [meter_data EXCEPT !.valid = FALSE]
            /\ rm_rc' = "-1"
    /\ Step("rm_done", "validate")
    /\ UNCHANGED <<rx_buf, tx_buf, uart_cfg, cfgFailed>>

\* Master_MCU_interface main(), lines 150-230: the stand-alone reader prints
\* the reading or the reason it has none
MasterValidate ==
    /\ pc = "rm_validate"
    /\ fixture.variant = "master"
    /\ rm_rc' = master_validate(rx_buf)
    /\ Step("rm_done", "validate")
    /\ UNCHANGED <<rx_buf, tx_buf, uart_cfg, cfgFailed, meter_data>>

BusNext ==
    \/ SwitchToModbusOk \/ SwitchToModbusFail \/ WriteCmd \/ Settle \/ Receive
    \/ SwitchToConsole \/ Validate \/ MasterValidate

BusSpec == BusInit /\ [][BusNext]_vars

\* build_read_cmd() on its own, lines 133-145: called with every address
CmdInit ==
    /\ pc = "cmd_build"
    /\ NetIdle
    /\ fixture = "none"
    /\ slave_id \in Bytes
    /\ meter_data = ZeroReading
    /\ rx_buf = <<>>
    /\ tx_buf = <<>>
    /\ uart_cfg = original_cfg
    /\ cfgFailed = FALSE
    /\ steps = <<>>
    /\ rm_rc = "0"
    /\ now = 0
    /\ start = 0
    /\ last_byte = 0

\* lines 133-145: build_read_cmd(slave_id, tx_buf)
BuildCmd ==
    /\ pc = "cmd_build"
    /\ tx_buf' = build_read_cmd(slave_id)
    /\ pc' = "cmd_done"
    /\ UNCHANGED <<netv, meter_data, rx_buf, uart_cfg, cfgFailed, steps, rm_rc,
                   fixture, slave_id, rxv>>

CmdSpec == CmdInit /\ [][BuildCmd]_vars

\* line 72: the size of rx_buf
MODBUS_RX_BUFFER == 256
\* line 206: the absolute deadline of the receive loop, in ms
RX_TIMEOUT_MS == 2000
\* line 215: the idle cutoff, in ms
RX_IDLE_MS == 150
\* line 219: k_msleep(5), the poll step
RX_POLL_MS == 5
\* the bytes a sender that picks its moments sends at most
MaxRxBytes == 5

\* line 206: the loop condition, k_uptime_get_32() being now
InTime == Less32(Sub32(now, start), RX_TIMEOUT_MS)

\* an idle cutoff that does not ask for four bytes
IdleCutoff_any_length(rx_len, last) ==
    Greater32(Sub32(now, last), RX_IDLE_MS)

\* line 215: the idle cutoff
IdleCutoff(rx_len, last) ==
    rx_len > 3 /\ Greater32(Sub32(now, last), RX_IDLE_MS)

\* the senders of the receive-loop specification: one that sends up to
\* MaxRxBytes bytes at moments of its choice (or none), one that has a byte
\* ready at every poll
Senders == {"free", "flood"}

\* the uptime at which the loop starts: zero, and 500 ms before the 32-bit
\* uptime wraps
Starts == {U32(0, 0), U32(65535, 65036)}

\* the receive loop on its own: the transaction stands at line 203
RxInit ==
    /\ pc = "rx_loop"
    /\ NetIdle
    /\ fixture \in Senders
    /\ slave_id = MODBUS_SLAVE_ID
    /\ meter_data = ZeroReading
    /\ rx_buf = <<>>
    /\ tx_buf = build_read_cmd(MODBUS_SLAVE_ID)
    /\ uart_cfg = "modbus"
    /\ cfgFailed = FALSE
    /\ steps = <<"switch_to_modbus", "write", "settle">>
    /\ rm_rc = "0"
    /\ start \in Starts
    /\ now = start
    /\ last_byte = start

\* what a loop iteration leaves alone
RxFrame == UNCHANGED <<netv, meter_data, tx_buf, uart_cfg, cfgFailed, steps, rm_rc,
                       fixture, slave_id, start>>

\* a full-buffer test that lets one more byte in
BufferFull_one_late(rx_len) == rx_len > MODBUS_RX_BUFFER

\* line 210: rx_len >= sizeof(rx_buf), rx_buf being uint8_t[MODBUS_RX_BUFFER]
BufferFull(rx_len) == rx_len >= MODBUS_RX_BUFFER

\* lines 206-219, uart_poll_in() delivers a byte: it is stored, last_byte is
\* set, a full buffer ends the loop, otherwise the idle cutoff is looked at
\* and the loop sleeps
PollByte ==
    /\ pc = "rx_loop"
    /\ InTime
    /\ fixture = "flood" \/ Len(rx_buf) < MaxRxBytes
    /\ rx_buf' = Append(rx_buf, 0)
    /\ last_byte' = now
    /\ IF BufferFull(Len(rx_buf')) \/ IdleCutoff(Len(rx_buf'), last_byte')
       THEN pc' = "rx_exit" /\ now' = now
       ELSE pc' = "rx_loop" /\ now' = Add32(now, RX_POLL_MS)
    /\ RxFrame

\* lines 206-219, uart_poll_in() has no byte: the idle cutoff is looked at and
\* the loop sleeps
PollNone ==
    /\ pc = "rx_loop"
    /\ InTime
    /\ fixture = "free"
    /\ IF IdleCutoff(Len(rx_buf), last_byte)
       THEN pc' = "rx_exit" /\ now' = now
       ELSE pc' = "rx_loop" /\ now' = Add32(now, RX_POLL_MS)
    /\ UNCHANGED <<rx_buf, last_byte>>
    /\ RxFrame

\* line 206: the deadline has passed
DeadlineExit ==
    /\ pc = "rx_loop"
    /\ ~InTime
    /\ pc' = "rx_exit"
    /\ UNCHANGED <<rx_buf, last_byte, now>>
    /\ RxFrame

RxNext == PollByte \/ PollNone \/ DeadlineExit

RxSpec == RxInit /\ [][RxNext]_vars

\* the steps of a transaction up to the validation
StepsBeforeValidate ==
    <<"switch_to_modbus", "write", "settle", "receive", "switch_to_console">>

\* response validation on its own: the transaction stands before line 226
\* with the reply in rx_buf
ValInit ==
    /\ pc = "rm_validate"
    /\ NetIdle
    /\ fixture \in DamagedFixtures
    /\ slave_id = MODBUS_SLAVE_ID
    /\ meter_data \in {[ZeroReading EXCEPT !.valid = v] : v \in BOOLEAN}
    /\ rx_buf = fixture.frame
    /\ tx_buf = build_read_cmd(MODBUS_SLAVE_ID)
    /\ uart_cfg = original_cfg
    /\ cfgFailed = FALSE
    /\ steps = StepsBeforeValidate
    /\ rm_rc = "0"
    /\ now = 0
    /\ start = 0
    /\ last_byte = 0

ValSpec == ValInit /\ [][Validate]_vars

(***************************************************************************)
(* Claims                                                                  *)
(***************************************************************************)

\* C1: the readiness flag mqtt_connected is true only if, since the most
\* recent link-lost or session-disconnect event, both a successful
\* link-connect result and a successful CONNACK have been handled.
C1_ReadyOnlyAfterLinkAndAck ==
    mqtt_connected => (sawLinkUp /\ sawAck)

\* C2: the step that handles NET_EVENT_WIFI_DISCONNECT_RESULT ends with
\* mqtt_connected false and with both semaphores (link-up, address-assigned)
\* empty, whatever the state it is taken from.
C2_LinkLostClears ==
    [][evt' = "wifi_lost" =>
          (~mqtt_connected' /\ wifi_connected' = 0 /\ ipv4_obtained' = 0)]_vars

\* C2 witness: a link-lost event has just been handled while a session was
\* established and the main thread was about to publish.
C2_Witness ==
    evt = "wifi_lost" /\ sess = "established" /\ pc = "st_publish"

\* C3: mqtt_connected turns true only in a step that delivers a CONNACK with
\* result 0 to mqtt_evt_handler; the step that calls mqtt_connect() leaves it
\* as it was; a step that delivers a CONNACK with a non-zero result leaves it
\* false.
C3_ConnectedOnlyOnAck ==
    [][/\ (~mqtt_connected /\ mqtt_connected') => evt' = "connack_ok"
       /\ call' = "mqtt_connect" => mqtt_connected' = mqtt_connected
       /\ evt' = "connack_refused" => ~mqtt_connected']_vars

\* C3 witness: a successful CONNACK has just been handled inside a poll slice
\* of thingsboard_connect() and the flag is set.
C3_Witness ==
    evt = "connack_ok" /\ mqtt_connected /\ pc = "tb_check"

\* C4: leaving the entry check of send_telemetry(): with the flag false the
\* call returns -ENOTCONN (also when the reading is invalid), with the flag
\* true and the reading invalid it returns -EINVAL, and in both cases
\* mqtt_publish() is not called; otherwise it goes on to publish.
C4_TelemetryGate ==
    [][(pc = "st_check" /\ pc' # "st_check") =>
          IF ~mqtt_connected
          THEN tel_rc' = "-ENOTCONN" /\ pc' = "maint" /\ call' # "pub_tel"
                  /\ telPubs' = telPubs
          ELSE IF ~meter_data.valid
          THEN tel_rc' = "-EINVAL" /\ pc' = "maint" /\ call' # "pub_tel"
                  /\ telPubs' = telPubs
          ELSE pc' = "st_publish"]_vars

\* C4 witness: send_telemetry() has returned -EINVAL for a connected session
\* and an invalid reading, without a publish.
C4_Witness ==
    /\ pc = "maint" /\ tel_rc = "-EINVAL" /\ mqtt_connected
    /\ ~meter_data.valid /\ telPubs = 0

\* positions of the main thread inside wifi_connect() and thingsboard_connect()
WcPcs == {"wc_loop", "wc_req", "wc_wait_link", "wc_wait_ip"}
TbPcs == {"tb_loop", "tb_poll", "tb_check", "tb_cleanup"}

\* steps the main thread can still take before wifi_connect() returns
WcMeasure ==
    (max_retries - wc_retry) * 4
      + (CASE pc = "wc_loop" -> 3 [] pc = "wc_req" -> 2
           [] pc = "wc_wait_link" -> 1 [] OTHER -> 0)

\* steps the main thread can still take before thingsboard_connect() returns
TbMeasure ==
    (tb_max_retries - tb_retry) * (2 * (TB_TIMEOUT_MS \div TB_SLICE_MS) + 10)
      + (CASE pc = "tb_loop" -> 2 * (TB_TIMEOUT_MS \div TB_SLICE_MS) + 5
           [] pc = "tb_poll" -> 2 * (timeout \div TB_SLICE_MS) + 2
           [] pc = "tb_check" -> 2 * (timeout \div TB_SLICE_MS) + 1
           [] OTHER -> 0)

\* C5: a wifi_connect() call whose attempts all ended in a timeout has issued
\* exactly 10 connect requests when it returns, and returns -ETIMEDOUT; a
\* thingsboard_connect() call whose attempts all ran out of their 5 s budget
\* has called mqtt_connect() exactly 5 times and returns -ECONNREFUSED; and
\* every main-thread step inside either call strictly decreases a natural
\* number, so neither call can loop forever.
C5_BoundedBringUp ==
    /\ [](/\ (pc \in {"su_wifi_ret", "hc_wifi_ret"} /\ hasWifi /\ ret # "0"
                /\ wcOnlyTimeout)
             => (wcReqs = 10 /\ ret = "-ETIMEDOUT")
          /\ (pc = "tb_ret" /\ tb_rc # "0" /\ tbOnlyTimeout)
             => (tbReqs = 5 /\ tb_rc = "-ECONNREFUSED")
          /\ pc \in WcPcs => WcMeasure >= 0
          /\ pc \in TbPcs => TbMeasure >= 0)
    /\ [][/\ (pc \in WcPcs /\ pc' \in WcPcs /\ <<pc, wc_retry>>' # <<pc, wc_retry>>)
             => WcMeasure' < WcMeasure
          /\ (pc \in TbPcs /\ pc' \in TbPcs
                /\ <<pc, tb_retry, timeout>>' # <<pc, tb_retry, timeout>>)
             => TbMeasure' < TbMeasure]_vars

\* C5 witness: thingsboard_connect() has just returned after five attempts
\* that all timed out, in a start-up whose first wifi_connect() call had
\* failed.
C5_Witness ==
    /\ pc = "tb_ret" /\ tbOnlyTimeout /\ tb_rc = "-ECONNREFUSED" /\ tbReqs = 5
    /\ wifi_retry_count > 0

\* the wifi_connect() half of C5 is reached as well: the call returns
\* -ETIMEDOUT after ten requests that all timed out
C5_WifiCaseReached ==
    ~(pc = "su_wifi_ret" /\ wcOnlyTimeout /\ ret = "-ETIMEDOUT" /\ wcReqs = 10)

\* start-up link bring-up has used up all its retries
StartupExhausted == wifi_retry_count = max_wifi_retries

\* C6: once start-up link bring-up has exhausted its retries the process has
\* not exited, every poll cycle that ends has polled the meter, and
\* mqtt_publish() (telemetry or attributes) is called only while
\* mqtt_connected is true.
C6_AcquisitionOnly ==
    /\ [](StartupExhausted => (pc # "exit" /\ (pc = "maint" => polled)))
    /\ [][(StartupExhausted /\ call' \in {"pub_tel", "pub_attr"})
            => mqtt_connected]_vars

\* the part of C6 that does not depend on the readiness flag
C6_NonFatalAndPolled ==
    StartupExhausted =>
        /\ pc # "exit"
        /\ pc = "maint" => polled
        /\ ~InLoop => pc \in {"su_loop", "su_after", "loop_top"}

\* C7 as stated: once the environment has healed (every link connect request
\* is answered by the link-up and address-assigned events, every session
\* connect request by a successful CONNACK) and the main thread keeps
\* running, a session that is not Connected is eventually Connected again.
C7_EventuallyReconnected ==
    (healed /\ ~mqtt_connected) ~> mqtt_connected

\* C7, amended: the same, provided the broker name resolves whenever
\* broker_init() is called.
C7_ReconnectedIfBrokerResolves ==
    (healed /\ dnsOk /\ ~mqtt_connected) ~> mqtt_connected

\* C7 witness: in the healed environment with a resolving broker name, the
\* bring-up of a health check has brought the link up again and a successful
\* CONNACK has just set the flag.
C7_Witness ==
    /\ healed /\ dnsOk /\ bringup /\ sawLinkUp
    /\ evt = "connack_ok" /\ mqtt_connected /\ pc = "tb_check"

\* C8: the health check of a poll cycle enters bring-up exactly when the
\* cycle counter is a multiple of 10 and mqtt_connected is false at the
\* check; a link or session connect request is issued in the poll loop only
\* in such a cycle.
C8_HealthCheckCadence ==
    /\ [][(pc = "loop_top" /\ pc' # "loop_top") =>
            ((pc' = "wc_enter") <=> (loop_count' % 10 = 0 /\ ~mqtt_connected))]_vars
    /\ []((InLoop /\ call \in {"wifi_req", "mqtt_connect"})
            => (bringup /\ loop_count % 10 = 0))

\* C8 witness: a session connect request has just been issued by the bring-up
\* of poll cycle 10.
C8_Witness ==
    call = "mqtt_connect" /\ loop_count = 10 /\ bringup

\* C9: send_attributes() has never been invoked more often than a successful
\* CONNACK has been handled, and at most once since the last successful
\* CONNACK.
C9_AttributesPerSession ==
    attrCredit >= 0 /\ attrSinceAck <= 1

\* C9 witness: the attributes were sent in an earlier session, a later
\* session has been established, and the attribute check of a poll cycle is
\* reached with the flag true.
C9_Witness ==
    /\ pc = "attrs_check" /\ attrs_sent /\ mqtt_connected
    /\ attrSinceAck = 0 /\ attrCredit >= 1

\* C10: at most one telemetry publish happens in a poll cycle, and when
\* send_telemetry() returns after a publish it returns what mqtt_publish()
\* returned, a failure included.
C10_NoRetryInCycle ==
    /\ telPubs <= 1
    /\ (pc = "maint" /\ telPubs = 1) => tel_rc = pub_rc

\* C10 witness: the publish of this cycle failed and send_telemetry() has
\* returned the failure.
C10_Witness ==
    pc = "maint" /\ telPubs = 1 /\ pub_rc = "err" /\ tel_rc = "err"

(***************************************************************************)
(* Response validation, request frame and register decoder                 *)
(***************************************************************************)

\* the last two bytes, low byte first, are the CRC of all bytes before them
TrailingCrcOk(buf) ==
    /\ Len(buf) >= 2
    /\ buf[Len(buf) - 1] + buf[Len(buf)] * 256 = modbus_crc16(buf, Len(buf) - 2)

\* the four conditions of an acceptable reply
WellFormed(buf) ==
    /\ Len(buf) >= 70
    /\ buf[1] = MODBUS_SLAVE_ID
    /\ buf[2] = 3
    /\ TrailingCrcOk(buf)

\* the transaction has returned
Returned == pc = "rm_done"

\* the reader produced a reading from the reply
Accepted ==
    /\ Returned
    /\ IF fixture.variant = "integrated"
       THEN rm_rc = "0" /\ meter_data.valid
       ELSE rm_rc = "ok"

\* C11: in both readers a reply is accepted if and only if it has at least 70
\* bytes, its trailing CRC matches, byte 0 is the device address and byte 1
\* is 0x03; a 70-byte reply with the other three conditions is accepted.
\* The stand-alone reader of Master_MCU_interface asks for more than 70 bytes
\* and violates this.
C11_AcceptedIffWellFormed ==
    Returned => (Accepted <=> WellFormed(rx_buf))

\* C11, the integrated firmware alone: it accepts exactly the well-formed
\* replies
C11_IntegratedAcceptsIffWellFormed ==
    (Returned /\ fixture.variant = "integrated")
        => (Accepted <=> WellFormed(rx_buf))

\* a well-formed reply of exactly 70 bytes accepted by the integrated firmware
C11_IntegratedWitness ==
    /\ Accepted
    /\ fixture.variant = "integrated"
    /\ Len(rx_buf) = 70

\* the positions at which two frames of one length differ
DiffAt(a, b) == {i \in 1..Len(a) : a[i] # b[i]}

\* b is a with exactly one bit flipped in a byte before the CRC trailer
OneBitFlipped(a, b) ==
    /\ Len(a) = Len(b)
    /\ Cardinality(DiffAt(a, b)) = 1
    /\ \A i \in DiffAt(a, b) :
          /\ i <= Len(a) - 2
          /\ Xor8(a[i], b[i], 8) \in {1, 2, 4, 8, 16, 32, 64, 128}

\* b is a with only the byte at position i changed and the CRC recomputed
OnlyByteChanged(a, b, i) ==
    /\ Len(a) = Len(b)
    /\ a[i] # b[i]
    /\ DiffAt(a, b) \subseteq {i, Len(a) - 1, Len(a)}
    /\ TrailingCrcOk(b)

\* the transaction returned failure and left no valid reading
Rejected == Returned /\ rm_rc = "-1" /\ ~meter_data.valid

\* C12: a reply that differs from an accepted reply by one flipped bit before
\* the CRC trailer is rejected, and so is one that differs from it only in
\* the address byte or only in the function byte, with a matching CRC.
C12_DamagedRejected ==
    (/\ Returned
     /\ fixture.kind \in {"flip", "addr", "func"}
     /\ validate_response(fixture.base) = "ok"
     /\ \/ OneBitFlipped(fixture.base, rx_buf)
        \/ OnlyByteChanged(fixture.base, rx_buf, 1)
        \/ OnlyByteChanged(fixture.base, rx_buf, 2))
    => Rejected

\* a reply with one flipped data bit, of an accepted reply, was rejected while
\* the undamaged reply is accepted
C12_Witness ==
    /\ Rejected
    /\ fixture.kind = "flip"
    /\ validate_response(fixture.base) = "ok"
    /\ OneBitFlipped(fixture.base, rx_buf)
    /\ 40 \in DiffAt(fixture.base, rx_buf)

\* a reply whose function byte alone was changed was rejected
C12_FunctionCaseReached ==
    /\ Rejected
    /\ fixture.kind = "func"
    /\ validate_response(fixture.base) = "ok"
    /\ OnlyByteChanged(fixture.base, rx_buf, 2)

\* C13: for every address, build_read_cmd yields the eight bytes address,
\* 0x03, 0x00, 0x01, 0x00, 0x26, CRC low byte, CRC high byte, the CRC taken
\* over the first six bytes with initial value 0xFFFF and polynomial 0xA001
\* (for address 1 that is 0x95, 0xD0), and the frame passes the trailing-CRC
\* check of response validation.
C13_RequestFrame ==
    pc = "cmd_done" =>
        /\ Len(tx_buf) = 8
        /\ SubSeq(tx_buf, 1, 6) = <<slave_id, 3, 0, 1, 0, 38>>
        /\ tx_buf[7] = modbus_crc16(SubSeq(tx_buf, 1, 6), 6) % 256
        /\ tx_buf[8] = modbus_crc16(SubSeq(tx_buf, 1, 6), 6) \div 256
        /\ TrailingCrcOk(tx_buf)
        /\ slave_id = 1 => tx_buf = <<1, 3, 0, 1, 0, 38, 149, 208>>

\* the request for the highest address was built and carries a matching CRC
C13_Witness ==
    /\ pc = "cmd_done"
    /\ slave_id = 255
    /\ tx_buf[1] = 255
    /\ TrailingCrcOk(tx_buf)

\* the big-endian 16-bit word at payload offsets o, o + 1 of the reply in rx_buf
\* (the payload starts behind address, function and byte count)
RxWord(o) == rx_buf[o + 4] * 256 + rx_buf[o + 5]

\* the integrated firmware decoded the reply in rx_buf into meter_data
Decoded == Accepted /\ fixture.variant = "integrated"

\* C14, as the code has it: each 32-bit field read by read_u32 at offset o
\* (flow at 0, forward total at 12, reverse total at 18) equals (W2 << 16) | W1,
\* W1 the big-endian word at bytes o..o+1 and W2 the one at o+2..o+3: the
\* first word of the register pair supplies the lower 16 bits.
C14_FirstWordIsLowHalf ==
    Decoded =>
        /\ meter_data.flow_rate = U32(RxWord(2), RxWord(0))
        /\ meter_data.forward_total = U32(RxWord(14), RxWord(12))
        /\ meter_data.reverse_total = U32(RxWord(20), RxWord(18))

\* C14, as stated: each of the three fields equals (W1 << 16) | W2, the
\* second word of the register pair supplying the lower 16 bits.
C14_SecondWordIsLowHalf ==
    Decoded =>
        /\ meter_data.flow_rate = U32(RxWord(0), RxWord(2))
        /\ meter_data.forward_total = U32(RxWord(12), RxWord(14))
        /\ meter_data.reverse_total = U32(RxWord(18), RxWord(20))

\* a reply whose flow words are 0x0002 then 0x0001 was decoded to 0x00010002
C14_Witness ==
    /\ Decoded
    /\ RxWord(0) = 2
    /\ RxWord(2) = 1
    /\ meter_data.flow_rate = U32(1, 2)

\* the reply was built from known field values in one word order and decoded
DecodedFields == Decoded /\ fixture.kind = "fields"

\* C15: a reply in which flow, forward total, reverse total and serial
\* number are all encoded with one and the same word order decodes back to
\* exactly those four values.
C15_RoundTrip ==
    DecodedFields =>
        /\ meter_data.flow_rate = fixture.values.flow
        /\ meter_data.forward_total = fixture.values.forward
        /\ meter_data.reverse_total = fixture.values.reverse
        /\ meter_data.serial_number = fixture.values.serial

\* C15, what the decoder does: the three fields read by read_u32 come back
\* when the first word is the lower half, the serial number comes back when
\* the first word is the upper half.
C15_TwoWordOrders ==
    DecodedFields =>
        IF fixture.order = "first_word_low"
        THEN /\ meter_data.flow_rate = fixture.values.flow
             /\ meter_data.forward_total = fixture.values.forward
             /\ meter_data.reverse_total = fixture.values.reverse
        ELSE meter_data.serial_number = fixture.values.serial

\* C15: with the word order that brings back the three read_u32 fields the
\* serial number comes back as well
C15_RoundTripFirstWordLow ==
    (DecodedFields /\ fixture.order = "first_word_low") =>
        meter_data.serial_number = fixture.values.serial

\* C15: with the word order that brings back the serial number the three
\* read_u32 fields come back as well
C15_RoundTripFirstWordHigh ==
    (DecodedFields /\ fixture.order = "first_word_high") =>
        /\ meter_data.flow_rate = fixture.values.flow
        /\ meter_data.forward_total = fixture.values.forward
        /\ meter_data.reverse_total = fixture.values.reverse

\* the C index in rx_buf of the payload offset k (line 250: d = &rx_buf[3])
FrameIndex(k) == k + 3

\* C16: whenever the reading is marked valid after a transaction, every
\* byte the decoder read was received in this transaction and lies before
\* the two CRC bytes of the reply.
C16_DecoderReadsReceivedData ==
    Decoded => \A k \in DecoderReads : FrameIndex(k) < Len(rx_buf) - 2

\* C16, what the length check gives: the decoder's bytes up to payload
\* offset 64 lie before the CRC trailer
C16_UpToOffset64 ==
    Decoded => \A k \in DecoderReads : k <= 64 => FrameIndex(k) < Len(rx_buf) - 2

\* C16: the baud code of a valid reading is made of received bytes
C16_BaudCodeReceived ==
    Decoded => /\ FrameIndex(73) < Len(rx_buf)
               /\ meter_data.baud_code = RxWord(72)

(***************************************************************************)
(* The receive loop                                                        *)
(***************************************************************************)

\* milliseconds since the loop started and since the last byte (or the start)
ElapsedMs == Sub32(now, start)[2]
IdleMs == Sub32(now, last_byte)[2]

\* the loop has ended
LoopLeft == pc = "rx_exit"

\* poll steps the loop can still take
RxMeasure == (RX_TIMEOUT_MS + RX_POLL_MS - ElapsedMs) \div RX_POLL_MS

\* C17: the receive loop terminates. It is never in or behind the loop more
\* than 2000 ms plus one 5 ms poll step after it started, so with no byte at
\* all it has left by then; once four bytes or more are collected it is never
\* more than 150 ms plus one poll step past the last byte; it has not left
\* with fewer than four bytes before the 2000 ms have passed; a step is
\* always possible inside the loop and each one that stays in the loop
\* uses up one of a finite number of poll steps.
C17_ReceiveLoopTerminates ==
    /\ [](/\ Sub32(now, start)[1] = 0
          /\ ElapsedMs <= RX_TIMEOUT_MS + RX_POLL_MS
          /\ (LoopLeft /\ Len(rx_buf) = 0)
                => ElapsedMs \in RX_TIMEOUT_MS..(RX_TIMEOUT_MS + RX_POLL_MS)
          /\ Len(rx_buf) >= 4
                => (Sub32(now, last_byte)[1] = 0 /\ IdleMs <= RX_IDLE_MS + RX_POLL_MS)
          /\ (LoopLeft /\ Len(rx_buf) < 4) => ElapsedMs >= RX_TIMEOUT_MS
          /\ RxMeasure >= 0
          /\ pc = "rx_loop" => ENABLED RxNext)
    /\ [][(pc = "rx_loop" /\ pc' = "rx_loop") => RxMeasure' < RxMeasure]_vars

\* C17 witness: four bytes were collected, the sender fell silent, and the
\* loop left 155 ms after the fourth byte, well before the deadline, with
\* the 32-bit uptime having wrapped during the loop
C17_Witness ==
    /\ LoopLeft
    /\ Len(rx_buf) = 4
    /\ IdleMs = RX_IDLE_MS + RX_POLL_MS
    /\ ElapsedMs < RX_TIMEOUT_MS
    /\ start[1] = 65535
    /\ now[1] = 0

\* C17: the silent line is reached, the loop leaving at the deadline
C17_SilentCaseReached ==
    LoopLeft /\ Len(rx_buf) = 0 /\ ElapsedMs = RX_TIMEOUT_MS

\* C17: three bytes do not arm the idle cutoff, the loop leaving at the
\* deadline long after the third byte
C17_ThreeBytesCaseReached ==
    LoopLeft /\ Len(rx_buf) = 3 /\ ElapsedMs = RX_TIMEOUT_MS /\ IdleMs > 1000

\* C17: the full buffer is reached
C17_FullBufferReached ==
    LoopLeft /\ Len(rx_buf) = MODBUS_RX_BUFFER

(***************************************************************************)
(* The transaction as a whole                                              *)
(***************************************************************************)

\* the steps of one transaction, in the order in which they are to happen
TransactionOrder ==
    <<"switch_to_modbus", "write", "settle", "receive", "switch_to_console",
      "validate">>

\* how the transaction ended, from the reply it was given
ExitPath ==
    IF Len(rx_buf) < 70 THEN "short"
    ELSE IF ~TrailingCrcOk(rx_buf) THEN "crc"
    ELSE IF rx_buf[1] # MODBUS_SLAVE_ID \/ rx_buf[2] # 3 THEN "header"
    ELSE "success"

C18_ShortCaseReached == Returned /\ ExitPath = "short" /\ rm_rc = "-1" /\ ~cfgFailed
C18_CrcCaseReached == Returned /\ ExitPath = "crc" /\ rm_rc = "-1" /\ ~cfgFailed
C18_SuccessCaseReached == Returned /\ ExitPath = "success" /\ rm_rc = "0" /\ ~cfgFailed

\* between the switch to the field bus and the restore the transport is in
\* the field-bus configuration unless uart_configure() failed
C18_FieldBusInBetween ==
    pc \in {"rm_write", "rm_settle", "rm_recv", "rm_restore"}
        => uart_cfg = IF cfgFailed THEN original_cfg ELSE "modbus"

\* C19: when the reconfiguration of the transport to the field-bus
\* parameters failed, read_meter_data returns failure and the reading is
\* marked invalid, whatever bytes were received afterwards.
C19_NoReadingAfterFailedSwitch ==
    (Returned /\ fixture.variant = "integrated" /\ cfgFailed)
        => (rm_rc = "-1" /\ ~meter_data.valid)

\* C19, what the code does: the outcome of the transaction is the outcome of
\* the validation of the received bytes, whether the reconfiguration failed
\* or not
C19_OutcomeFromReplyAlone ==
    (Returned /\ fixture.variant = "integrated")
        => IF ExitPath = "success"
           THEN rm_rc = "0" /\ meter_data.valid
           ELSE rm_rc = "-1" /\ ~meter_data.valid

(***************************************************************************)
(* The flags of the telemetry message                                      *)
(***************************************************************************)

\* send_telemetry() has built its message
MessageBuilt == pc \notin {"st_check", "st_publish"} /\ payload # {}

\* C20: in the telemetry message leak is 1 exactly if bit 2 (0x0004) of the
\* status word is set, empty always equals leak, and lowBattery is 1
\* exactly if bit 5 (0x0020) is set; for status 0x0024 all three are 1 and
\* for status 0x0000 all three are 0.
C20_StatusFlags ==
    \A m \in payload :
        /\ m.leak \in {0, 1}
        /\ m.lowBattery \in {0, 1}
        /\ m.leak = 1 <=> meter_data.status % 8 >= 4
        /\ m.empty = m.leak
        /\ m.lowBattery = 1 <=> meter_data.status % 64 >= 32
        /\ meter_data.status = 36
              => (m.leak = 1 /\ m.empty = 1 /\ m.lowBattery = 1)
        /\ meter_data.status = 0
              => (m.leak = 0 /\ m.empty = 0 /\ m.lowBattery = 0)

\* C20 witness: the message for status 0x0024 was built with all three flags 1
C20_Witness ==
    /\ MessageBuilt
    /\ meter_data.status = 36
    /\ payload = {[leak |-> 1, empty |-> 1, lowBattery |-> 1]}

\* C20: a status word with bit 3 set and bit 2 clear gives leak = 0, also
\* with all higher bits set
C20_NeighbourBitReached ==
    /\ MessageBuilt
    /\ meter_data.status = 65535 - 4
    /\ payload = {[leak |-> 0, empty |-> 0, lowBattery |-> 1]}

(***************************************************************************)
(* The attributes message                                                  *)
(***************************************************************************)

\* C21: the baud-rate string of the attributes message is "9600" for baud
\* code 0, "2400" for 1, "4800" for 2, "1200" for 3 and "unknown" for every
\* other 16-bit code.
C21_BaudRateString ==
    \A m \in attributes :
        /\ meter_data.baud_code = 0 => m.baudRate = "9600"
        /\ meter_data.baud_code = 1 => m.baudRate = "2400"
        /\ meter_data.baud_code = 2 => m.baudRate = "4800"
        /\ meter_data.baud_code = 3 => m.baudRate = "1200"
        /\ meter_data.baud_code \notin 0..3 => m.baudRate = "unknown"

\* C21 witness: the attributes for baud code 2 were published as "4800"
C21_Witness ==
    /\ call = "pub_attr"
    /\ meter_data.baud_code = 2
    /\ attributes = {[baudRate |-> "4800"]}

\* C21: a code whose low byte is 1 is published as "unknown"
C21_HighByteCaseReached ==
    /\ call = "pub_attr"
    /\ meter_data.baud_code = 257
    /\ attributes = {[baudRate |-> "unknown"]}

(***************************************************************************)
(* Start-up                                                                *)
(***************************************************************************)

\* no link connect request, session connect request or meter transaction
\* has been issued, and none is outstanding
NothingIssued ==
    /\ call = "none"
    /\ wcReqs = 0 /\ tbReqs = 0 /\ ~polled
    /\ ~linkReqPending /\ sess = "closed" /\ loop_count = 0

\* C22: with the serial transport not ready at start-up, main() goes from
\* its entry straight to its error return and stays there, and no link
\* connect request, session connect request or meter transaction is issued.
C22_UartNotReadyIsFatal ==
    /\ [](~uartReady => (pc \in {"boot", "exit"} /\ NothingIssued))
    /\ [][(~uartReady /\ pc = "boot" /\ pc' # "boot") => pc' = "exit"]_vars
    /\ [][pc = "exit" => (pc' = "exit" /\ ~uartReady)]_vars

\* C22 witness: main() has returned at line 634 with nothing issued
C22_Witness ==
    /\ pc = "exit"
    /\ ~uartReady
    /\ NothingIssued

\* C22: with the transport ready, start-up goes on to the first link connect
\* request
C22_ReadyCaseReached ==
    uartReady /\ call = "wifi_req" /\ loop_count = 0

(***************************************************************************)
(* The waiting of one session-connect attempt                              *)
(***************************************************************************)

\* C23: a session-connect attempt the broker never answers is abandoned
\* (line 493 reached from the loop of line 478) after at most 5 s spent in
\* the poll waits and sleeps of its slices.
C23_AbandonedWithinTimeout ==
    (pc = "tb_cleanup" /\ connackDue) => waited <= TB_TIMEOUT_MS

\* C23: what the loop of lines 478-491 does bound: ten slices, each of them
\* a poll wait and a sleep
C23_AbandonedWithinTwiceTimeout ==
    /\ waited <= 2 * TB_TIMEOUT_MS
    /\ (pc = "tb_cleanup" /\ connackDue) => waited = 2 * TB_TIMEOUT_MS

(***************************************************************************)
(* The stand-alone telemetry clients                                       *)
(***************************************************************************)

\* C24: in the stand-alone clients main() never returns because of a link
\* timeout (wifi_connect() returned -ETIMEDOUT), a session timeout (every
\* attempt of thingsboard_connect() ran out of its budget) or a failed
\* publish.
C24_FailuresNeverTerminate ==
    pc = "cm_exit" =>
        /\ ret # "-ETIMEDOUT"
        /\ ~(tb_rc = "-ECONNREFUSED" /\ tbOnlyTimeout)
        /\ pub_rc # "err"

\* C24: what does hold: once while (1) is entered main() never returns, and
\* a failed publish is followed by a new session bring-up
C24_LoopNeverLeft ==
    /\ [](loop_count > 0 => pc # "cm_exit")
    /\ [][(pc = "cm_tel" /\ pub_rc' = "err") => pc' = "tb_enter"]_vars

\* C25: in the simulated water-meter client a link-lost event
\* (NET_EVENT_WIFI_DISCONNECT_RESULT) is eventually followed by a new
\* NET_REQUEST_WIFI_CONNECT, stated for the events that find the client in
\* its while (1).
C25_LinkLostLeadsToRequest ==
    (loop_count > 0 /\ evt = "wifi_lost") ~> (call = "wifi_req")

\* C25: what does hold: wifi_connect() runs once, at line 355, so the client
\* issues at most one link connect request in its lifetime
C25_OneRequestPerLifetime ==
    /\ wcReqs <= 1
    /\ loop_count > 0 => call # "wifi_req"

\* C26: every flowRate the simulated water meter puts into a telemetry
\* message lies in 5..50, whatever the random draws.
C26_FlowRateInRange ==
    \A m \in payload : m.flowRate \in 5 .. 50

\* C26: what does hold: the unsigned wrap of line 291 does no harm, the
\* value is in 5..50 without a leak and up to 20 above that with one
C26_FlowRateInRangeBeforeBoost ==
    /\ flow_rate \in 5 .. 70
    /\ \A m \in payload :
          /\ m.flowRate = flow_rate
          /\ m.leak = 0 => m.flowRate \in 5 .. 50
          /\ m.leak = 1 => m.flowRate \in 25 .. 70

\* C27: thingsboard_connect() returns 0 only with a session that a
\* CONNACK(0) established for an mqtt_connect() of that same call (the call
\* starts with the client re-initialised, so an established session at its
\* return is one of its own); a readiness flag left true by an earlier
\* session does not make it return 0.
C27_SuccessOnlyWithOwnAck ==
    (pc = "tb_ret" /\ tb_rc = "0") => sess = "established"

\* C27: the stale flag at work: the call returns 0 with its CONNECT unanswered
C27_StaleSuccessReached ==
    pc = "tb_ret" /\ tb_rc = "0" /\ sess = "open" /\ connackDue

(***************************************************************************)
(* Tear-down in session bring-up                                           *)
(***************************************************************************)

\* the way thingsboard_connect() moves between its requests: mqtt_connect()
\* is called at the loop head only, the loop head is reached from the
\* function entry or from the cleanup only, and the failure return leaves
\* from the loop head
RequestsFromLoopHead ==
    /\ [][call' = "mqtt_connect" => pc = "tb_loop"]_vars
    /\ [][(pc' = "tb_loop" /\ pc # "tb_loop") =>
              pc \in {"tb_enter", "tb_cleanup"}]_vars
    /\ [][(pc' = "tb_ret" /\ pc # "tb_ret" /\ tb_rc' # "0") =>
              pc = "tb_loop"]_vars
    /\ [][(pc = "tb_loop" /\ pc' # "tb_loop") => tbReqs' >= tbReqs]_vars

\* C28: in thingsboard_connect() every connect request but the first is
\* preceded by a cleanup that issued mqtt_disconnect(), the failure return is
\* too, and no open session is left at the loop head or at a failure return.
C28_TearDownBetweenRequests ==
    /\ RequestsFromLoopHead
    /\ [][(pc = "tb_cleanup" /\ pc' # "tb_cleanup") =>
              call' = "mqtt_disconnect"]_vars
    /\ [](pc = "tb_loop" => sess \notin {"open", "established"})
    /\ []((pc = "tb_ret" /\ tb_rc # "0") => sess \notin {"open", "established"})

\* C28 as amended: the cleanup issues mqtt_disconnect() whenever the client
\* has a socket (client.transport.tcp.sock >= 0); without one there is
\* nothing to tear down.
C28_TearDownWhereSocket ==
    /\ RequestsFromLoopHead
    /\ [][(pc = "tb_cleanup" /\ pc' # "tb_cleanup") =>
              (call' = "mqtt_disconnect" <=> sess # "nosock")]_vars
    /\ [](pc = "tb_loop" => sess \notin {"open", "established"})
    /\ []((pc = "tb_ret" /\ tb_rc # "0") => sess \notin {"open", "established"})

\* C28 witness: a bring-up returns failure after its fifth request, the
\* session of that request torn down
C28_Witness ==
    /\ pc = "tb_ret"
    /\ tb_rc = "-ECONNREFUSED"
    /\ tbReqs = tb_max_retries
    /\ tbOnlyTimeout
    /\ sess = "closed"

\* C28: a second request follows a cleanup that had no socket to close
C28_RequestAfterNoSocket ==
    pc = "tb_poll" /\ tbReqs = 2 /\ ~tbOnlyTimeout /\ call = "mqtt_connect"

(***************************************************************************)
(* The attempts of link bring-up                                           *)
(***************************************************************************)
WcAttemptPcs == {"wc_req", "wc_wait_link", "wc_wait_ip"}
WcReturnPcs  == {"su_wifi_ret", "hc_wifi_ret"}

\* wifi_connect() returns 0 from the address wait only, by taking the
\* address signal; the address wait is entered from the link wait only, by
\* taking the link-up signal; the link wait follows the request
BothSignalsTaken ==
    /\ [][(pc \notin WcReturnPcs /\ pc' \in WcReturnPcs /\ ret' = "0") =>
              (pc = "wc_wait_ip" /\ ipv4_obtained = 1 /\ ipv4_obtained' = 0)]_vars
    /\ [][(pc # "wc_wait_ip" /\ pc' = "wc_wait_ip") =>
              (pc = "wc_wait_link" /\ wifi_connected = 1 /\ wifi_connected' = 0)]_vars
    /\ [][(pc # "wc_wait_link" /\ pc' = "wc_wait_link") =>
              (pc = "wc_req" /\ call' = "wifi_req")]_vars

\* an attempt that does not end in the return of 0 goes back to the loop
\* head with one more retry counted, and nothing else counts a retry
OneUnitPerFailure ==
    /\ [][(pc \in WcAttemptPcs /\ pc' \notin WcAttemptPcs) =>
              \/ pc' = "wc_loop" /\ wc_retry' = wc_retry + 1
              \/ pc' \in WcReturnPcs /\ ret' = "0" /\ pc = "wc_wait_ip"]_vars
    /\ [][(pc \in WcAttemptPcs /\ pc' \in WcAttemptPcs) =>
              wc_retry' = wc_retry]_vars
    /\ [][(pc = "wc_wait_link" /\ wifi_connected = 0 /\ pc' # pc) =>
              pc' = "wc_loop"]_vars
    /\ [][(pc = "wc_wait_ip" /\ ipv4_obtained = 0 /\ pc' # pc) =>
              pc' = "wc_loop"]_vars

\* C29: wifi_connect() returns 0 only from an attempt that took the link-up
\* signal and then the address signal; a rejected request, a link-up timeout
\* and an address timeout each end the attempt with exactly one retry
\* counted; and an attempt whose request got a connect result with non-zero
\* status does not return 0.
C29_AttemptOutcome ==
    /\ BothSignalsTaken
    /\ OneUnitPerFailure
    /\ []((pc \in WcReturnPcs /\ ret = "0") => ~wcRefused)

\* C29: what does hold: everything but the part on the non-zero result
C29_SignalsAndRetryUnits ==
    BothSignalsTaken /\ OneUnitPerFailure

\* C30: when wifi_connect() issues a connect request both semaphores are
\* empty.
C30_SignalsEmptyAtRequest ==
    [][call' = "wifi_req" => (wifi_connected = 0 /\ ipv4_obtained = 0)]_vars

\* C30: what does hold: both semaphores are empty when the resets of lines
\* 338-339 are done, and in the stand-alone clients at the single request
C30_SignalsEmptyAfterReset ==
    [][(pc = "wc_loop" /\ pc' = "wc_req") =>
           (wifi_connected' = 0 /\ ipv4_obtained' = 0)]_vars

\* C31: under every interleaving of the poll loop with the link-lost handler,
\* whenever a telemetry or attributes message is handed to mqtt_publish()
\* mqtt_connected is true at that moment.
C31_ConnectedAtPublish ==
    [][call' \in {"pub_tel", "pub_attr"} => mqtt_connected']_vars

(***************************************************************************)
(* One meter transaction with the link driver's events delivered while it  *)
(* runs: read_meter_data() is on the main thread, wifi_event_handler and   *)
(* ipv4_event_handler on the net_mgmt thread                               *)
(***************************************************************************)
\* lines 278, 281, 284 and 295: the LOG_ statement the handler of the event
\* executes; the log goes to the console, which is uart_dev (lines 65, 175
\* and 638: "Console UART", "Switch UART back to console mode")
handler_log(e) ==
    CASE e = "wifi_ok"   -> "WiFi connected"
      [] e = "wifi_fail" -> "WiFi failed"
      [] e = "wifi_lost" -> "WiFi disconnected"
      [] e = "ipv4"      -> "IPv4 address obtained"
      [] OTHER           -> "none"

\* the replies of the interleaved transaction
LineFixtures ==
    {f \in Fixtures : f.kind \in {"reply", "silent"} /\ f.variant = "integrated"}

\* the supervisor while the poll loop runs: either the link and the session
\* are up, or the last bring-up gave up with its connect request unanswered
Operational ==
    /\ envLink \in {"up", "down"}
    /\ mqtt_connected = (envLink = "up")
    /\ sess = IF envLink = "up" THEN "established" ELSE "closed"
    /\ linkReqPending = (envLink = "down")
    /\ wifi_connected = 0
    /\ ipv4_obtained = 0
    /\ wc_retry = 0
    /\ tb_retry = 0
    /\ timeout = 0
    /\ wifi_retry_count = 0
    /\ ret = "0"
    /\ attrs_sent = FALSE
    /\ tel_rc = "0"
    /\ tb_rc = "0"
    /\ uartReady = TRUE
    /\ hasWifi = TRUE
    /\ ipPending = FALSE
    /\ sockBuf = "empty"
    /\ connackDue = FALSE
    /\ healed = FALSE
    /\ dnsOk = TRUE
    /\ call = "none"
    /\ evt = "none"
    /\ sawLinkUp = (envLink = "up")
    /\ sawAck = (envLink = "up")
    /\ attrCredit = 0
    /\ attrSinceAck = 0
    /\ telPubs = 0
    /\ polled = FALSE
    /\ bringup = FALSE
    /\ wcReqs = 0
    /\ wcOnlyTimeout = TRUE
    /\ tbReqs = 0
    /\ tbOnlyTimeout = TRUE
    /\ pub_rc = "0"
    /\ payload = {}
    /\ attributes = {}

\* the poll loop is about to call read_meter_data() (line 704)
LineInit ==
    /\ pc = "rm_enter"
    /\ Operational
    /\ loop_count = 1
    /\ waited = 0
    /\ wcRefused = FALSE
    /\ suReqs = 0
    /\ cb_regs = [wifi_cb |-> 0, ipv4_cb |-> 0]
    /\ flow_rate = 15
    /\ total_volume = 0
    /\ fixture \in LineFixtures
    /\ slave_id = MODBUS_SLAVE_ID
    /\ rx_buf = <<>>
    /\ tx_buf = <<>>
    /\ uart_cfg = original_cfg
    /\ cfgFailed = FALSE
    /\ steps = <<>>
    /\ rm_rc = "0"
    /\ now = 0
    /\ start = 0
    /\ last_byte = 0
    /\ meter_data \in {[ZeroReading EXCEPT !.valid = v] : v \in BOOLEAN}

\* the steps of read_meter_data() and the events of the link driver, in any
\* order
LineNext ==
    \/ SwitchToModbusOk \/ SwitchToModbusFail \/ WriteCmd \/ Settle \/ Receive
    \/ SwitchToConsole \/ Validate
    \/ WifiConnectResultOk \/ WifiConnectResultFail \/ WifiDisconnect
    \/ Ipv4AddrAdd

LineSpec == LineInit /\ [][LineNext]_vars

\* C32: while the serial transport is configured for the field bus (from
\* switch_to_modbus until switch_to_console) no event handler writes log
\* output to the serial line: no step that delivers a link or address event,
\* whose handler logs, is taken with the field-bus configuration in force.
C32_NoLogOnFieldBus ==
    [][(pc' = pc /\ handler_log(evt') # "none") => uart_cfg # "modbus"]_vars

(***************************************************************************)
(* Session connect requests and the bring-up run they belong to            *)
(***************************************************************************)
\* positions of the main thread inside thingsboard_connect(), entry included
TbCallPcs == TbPcs \cup {"tb_enter"}

\* C33: a session connect request is issued only inside thingsboard_connect();
\* thingsboard_connect() is entered only by the step that takes the 0 of
\* broker_init(), and that step is reached only with the 0 of wifi_connect()
\* of the same run in ret; a run whose wifi_connect() or broker_init() returns
\* non-zero goes on to the poll loop without entering thingsboard_connect().
C33_ConnectOnlyAfterBringUp ==
    /\ [][call' = "mqtt_connect" => pc \in TbCallPcs]_vars
    /\ [][(pc \notin TbCallPcs /\ pc' \in TbCallPcs) =>
              (pc \in {"su_after", "hc_dns"} /\ ret = "0" /\ ret' = "0")]_vars
    /\ [][(pc # "su_after" /\ pc' = "su_after") =>
              /\ pc \in {"su_wifi_ret", "su_loop"}
              /\ ret' = ret
              /\ pc = "su_loop" => ret # "0"]_vars
    /\ [][(pc # "hc_dns" /\ pc' = "hc_dns") =>
              (pc = "hc_wifi_ret" /\ ret = "0" /\ ret' = "0")]_vars
    /\ [][(pc \notin WcReturnPcs /\ pc' \in WcReturnPcs) =>
              (pc \in WcPcs \cup {"wc_enter"})]_vars
    /\ [][(pc \in WcReturnPcs /\ ret # "0") =>
              pc' \in WcReturnPcs \cup {"su_loop", "read"}]_vars
    /\ [][(pc \in {"su_after", "hc_dns"} /\ pc' # pc /\ ret' # "0") =>
              pc' \in {"loop_top", "read"}]_vars

\* C33 witness: the health check of a poll cycle has brought the link up and
\* resolved the broker, and the session connect request has just been issued
C33_Witness ==
    /\ call = "mqtt_connect"
    /\ InLoop
    /\ bringup
    /\ ret = "0"
    /\ envLink = "up"

(***************************************************************************)
(* The poll cycles on their own: readings that differ from cycle to cycle, *)
(* failed transactions, and the link lost at any point                     *)
(***************************************************************************)
\* status words and baud codes the meter answers with
CycleStatuses == {0, 4, 32}
CycleBauds == {0, 1}

\* main() has reached the poll loop (line 681)
CycleInit ==
    /\ pc = "loop_top"
    /\ Operational
    /\ loop_count = 0
    /\ meter_data = [valid |-> FALSE, status |-> 0, baud_code |-> 0]
    /\ BusIdle

ReadMeterAny == read_cycle(CycleStatuses, CycleBauds)

CycleNext ==
    \/ LoopTop \/ ReadMeterAny \/ AttrsCheck \/ SaCheck \/ SaPublish
    \/ TelGate \/ StCheck \/ StPublish \/ Maint
    \/ WifiDisconnect

CycleSpec == CycleInit /\ [][CycleNext]_vars

\* the acquisition of the current cycle succeeded
AcquiredThisCycle == polled /\ ret = "0" /\ meter_data.valid

\* C34: the reading changes only in the acquisition of a cycle; a telemetry or
\* attributes message is handed to mqtt_publish() only in a cycle whose
\* acquisition succeeded, and what was published in the cycle is the payload
\* of the reading that acquisition decoded; a cycle whose acquisition failed
\* goes straight to its end with nothing published.
C34_PublishedFromThisCycle ==
    /\ [][meter_data' # meter_data => (pc = "read" /\ ~polled /\ polled')]_vars
    /\ [][call' \in {"pub_tel", "pub_attr"} => AcquiredThisCycle]_vars
    /\ []((payload # {} \/ attributes # {}) => AcquiredThisCycle)
    /\ [](payload # {} => payload = {TelemetryFlags(meter_data.status)})
    /\ [](attributes # {} =>
              attributes = {[baudRate |-> baud_str(meter_data.baud_code)]})
    /\ []((polled /\ ~AcquiredThisCycle) =>
              (pc = "maint" /\ telPubs = 0 /\ payload = {} /\ attributes = {}))

\* C34 witness: a cycle has published the telemetry of the status word it
\* decoded, after an earlier cycle decoded another one
C34_Witness ==
    /\ call = "pub_tel"
    /\ loop_count > 1
    /\ meter_data.status = 32
    /\ payload = {TelemetryFlags(32)}
    /\ attrs_sent

\* C35: during start-up bring-up the number of link connect requests issued
\* before the system gives up and goes on to the poll loop is at most the
\* retry bound, a count of at most 10.
C35_StartupRequestsBounded == ~InLoop => suReqs <= max_retries

C37_LatchedByFirstAttempt ==
    /\ [][(pc # "sa_check" /\ pc' = "sa_check") =>
              (pc = "attrs_check" /\ ~attrs_sent)]_vars
    /\ [][(pc # "sa_publish" /\ pc' = "sa_publish") => pc = "sa_check"]_vars
    /\ [][(pc \in {"sa_check", "sa_publish"} /\ pc' \notin {"sa_check", "sa_publish"})
              => attrs_sent']_vars
    /\ [][attrs_sent => attrs_sent']_vars

\* C37 witness: the attributes publish has just failed and the latch is set
C37_Witness ==
    /\ pc = "tel_gate"
    /\ call = "pub_attr"
    /\ pub_rc = "err"
    /\ attrs_sent

\* C37: after the latch was set, a later bring-up has established the session
\* again and the poll cycle passes the call by
C37_PassedByAfterReconnect ==
    /\ pc = "tel_gate"
    /\ call = "none"
    /\ attrs_sent
    /\ mqtt_connected
    /\ attrCredit >= 1
    /\ loop_count > HEALTH_PERIOD

\* C38: over any number of bring-up runs each of the two link event callbacks
\* is added to the event manager's list at most once.
C38_CallbacksRegisteredOnce ==
    cb_regs.wifi_cb <= 1 /\ cb_regs.ipv4_cb <= 1

(***************************************************************************)
(* The receive buffer                                                      *)
(***************************************************************************)
\* C39: in the receive loop the number of stored bytes never exceeds
\* MODBUS_RX_BUFFER (256), every store writes at an index below 256 (the
\* index is the number of bytes stored before it), and with 256 bytes stored
\* the loop has exited, whatever the sender does.
C39_StoresWithinBuffer ==
    /\ [](Len(rx_buf) <= MODBUS_RX_BUFFER)
    /\ [][rx_buf' # rx_buf =>
              (rx_buf' = Append(rx_buf, rx_buf'[Len(rx_buf')])
                  /\ Len(rx_buf) < MODBUS_RX_BUFFER)]_vars
    /\ [](Len(rx_buf) = MODBUS_RX_BUFFER => pc = "rx_exit")

\* C39 witness: a sender that never stops has filled the buffer and the loop
\* has exited before its deadline
C39_Witness ==
    /\ fixture = "flood"
    /\ Len(rx_buf) = MODBUS_RX_BUFFER
    /\ pc = "rx_exit"
    /\ InTime

====
